---- MODULE Spec2Model ----
(***************************************************************************)
(* Annotation system of the "Your Code My Code" extension: the snapshot    *)
(* of highlighted line ranges of one document and the functions that       *)
(* update it when the document changes (annotationSystem.ts).              *)
(*                                                                         *)
(* An Annotation is a record [startLine, endLine, timestamp, type]; a      *)
(* ContentChange is a record [startLine, endLine, addedLines,              *)
(* deletedLines]; timestamps are clock readings (ISO strings in the        *)
(* source, compared with >, which orders them chronologically).            *)
(***************************************************************************)
EXTENDS Integers, Sequences, FiniteSets, TLC

VARIABLES
    snapshot,      \* the Snapshot handed to applyChange / persisted for the document
    newSnapshot,   \* the Snapshot returned by the last applyChange call
    commit,        \* the Commit of the last applyChange call
    now,           \* the clock read by new Date()
    annotation,    \* argument of the last processAnnotationForChangeAndClean call
    change,        \* argument of the last processAnnotationForChangeAndClean call
    annotations,   \* argument of the last updateAndCleanAnnotationsForCommit call
    changes,       \* the list of changes given to the last call
    results,       \* the list returned by the last call
    pc,            \* "idle" before a call, then the name of the function called
    file,          \* the snapshot file of the document in .vscode
    saveCalls,     \* number of saveSnapshot calls made so far
    error,         \* message of the Error the last command threw, "" if none
    removal,       \* removeStartLine and removeEndLine of the last removePartialAnnotation
    gitOperationSuspended,  \* HeuristicsSystem.gitOperationSuspended
    recentActions, \* HeuristicsSystem.recentActions
    actionTimeout, \* HeuristicsSystem.actionTimeout: due time of the last timer set, 0 if undefined
    timers,        \* due times of the timers set by setTimeout and neither fired nor cleared
    notifications, \* suspension notifications shown and not yet answered
    significant,   \* value of the last isChangeSignificant call
    handlers,      \* the handleDocumentChange calls made for the document, by event
    folder,        \* the snapshot files of .vscode, by the path getSnapshotPath returns
    saved          \* per document of the workspace, the file its own saveSnapshot calls leave

\* The state outside annotationSystem's pure functions: the store and the
\* commands of the extension.
heuristics == <<gitOperationSuspended, recentActions, actionTimeout, timers,
                notifications, significant>>

\* The snapshot files of the documents of the workspace.
workspace == <<folder, saved>>

extension == <<file, saveCalls, error, removal, heuristics, handlers, workspace>>

vars == <<snapshot, newSnapshot, commit, now, annotation, change, annotations,
          changes, results, pc, extension>>

(***************************************************************************)
(* Bounds of the model.                                                    *)
(***************************************************************************)
MaxDocLine == 3         \* lines of the document whose snapshot is persisted
MaxVersion == 1         \* versions of that document
MaxClock == 3           \* clock readings
MaxLine == 4            \* line numbers of the snapshots and commits given to applyChange alone
MaxAdded == 1           \* addedLines of an edit of a commit
MaxTransformLine == 8   \* line numbers given to the transform alone
MaxTransformAdded == 2  \* addedLines of an edit given to the transform alone
MaxDeleted == 2         \* deletedLines of an edit given to the transform alone
MaxSquashLine == 4      \* line numbers of the annotations given to the merge alone
MaxStamp == 1           \* timestamps of the annotations given to the merge alone
MaxBatchLine == 10      \* line numbers of the single-line edit batches
MaxBatchAdded == 3      \* addedLines of the single-line edit batches
MaxTextLen == 3         \* characters of the text of a change given to the heuristics
TimeStep == 250         \* milliseconds between two observations of the heuristics
MaxTime == 1500         \* milliseconds for which the heuristics are observed
MaxNotifications == 2   \* suspension notifications left unanswered at a time
MaxEventLine == 2       \* lines of the document touched by its change events
MaxSaves == 2           \* saveSnapshot calls made on the store alone
MaxMergedLine == 6      \* lines of the annotations and edits of the merged-form batch
MaxPathLen == 3         \* characters of the relative path of a document

AiGenerated == "ai-generated"

(***************************************************************************)
(* dataStructures.ts                                                       *)
(***************************************************************************)
Annotation(s, e, t) ==
    [startLine |-> s, endLine |-> e, timestamp |-> t, type |-> AiGenerated]

ContentChange(s, e, a, d) ==
    [startLine |-> s, endLine |-> e, addedLines |-> a, deletedLines |-> d]

Commit(v, sig, cs) ==
    [documentVersion |-> v, isSignificant |-> sig, contentChanges |-> cs]

Snapshot(rs, t, v) ==
    [highlightedRanges |-> rs, lastUpdated |-> t, documentVersion |-> v]

(***************************************************************************)
(* processAnnotationForChangeAndClean                                      *)
(***************************************************************************)
numNetLineChange(c) == c.addedLines - c.deletedLines

\* Mutant of EntirelyBefore: an annotation ending on the first edited line
\* counts as before the edit.
EntirelyBeforeOrTouching(ann, c) == ann.endLine <= c.startLine

\* Case 1 guard: the annotation is completely before the replacement.
EntirelyBefore(ann, c) == ann.endLine < c.startLine

\* Mutant of EntirelyAfter: an annotation starting on the last edited line
\* counts as after the edit.
EntirelyAfterOrTouching(ann, c) == ann.startLine >= c.endLine

\* Case 2 guard: the annotation is completely after the replacement.
EntirelyAfter(ann, c) == ann.startLine > c.endLine

\* Mutant of ShiftedAnnotation: the shift ignores the deleted lines.
ShiftedByAddedLines(ann, c) ==
    [ann EXCEPT !.startLine = ann.startLine + c.addedLines,
                !.endLine = ann.endLine + c.addedLines]

\* Case 2 result: both bounds shifted by the net line change.
ShiftedAnnotation(ann, c) ==
    [ann EXCEPT !.startLine = ann.startLine + numNetLineChange(c),
                !.endLine = ann.endLine + numNetLineChange(c)]

\* Mutant of BeforePart: the part before keeps the first edited line.
BeforePartUpToEditLine(ann, c) ==
    IF ann.startLine < c.startLine
    THEN <<[ann EXCEPT !.endLine = c.startLine]>>
    ELSE <<>>

\* Case 3, part before the replacement (if any).
BeforePart(ann, c) ==
    IF ann.startLine < c.startLine
    THEN <<[ann EXCEPT !.startLine = ann.startLine,
                       !.endLine = c.startLine - 1]>>
    ELSE <<>>

\* Mutant of AfterPart: the part after is not shifted by the net change.
AfterPartUnshifted(ann, c) ==
    IF ann.endLine > c.endLine
    THEN <<[ann EXCEPT !.startLine = c.endLine + 1, !.endLine = ann.endLine]>>
    ELSE <<>>

\* Mutant of AfterPart: the part after is built without the fields of the
\* annotation and stamped anew.
AfterPartRestamped(ann, c) ==
    IF ann.endLine > c.endLine
    THEN LET afterStart == (c.endLine + 1) + numNetLineChange(c)
             afterEnd == afterStart + (ann.endLine - c.endLine) - 1
         IN <<Annotation(afterStart, afterEnd, 0)>>
    ELSE <<>>

\* Case 3, part after the replacement (if any), shifted by the net change.
AfterPart(ann, c) ==
    IF ann.endLine > c.endLine
    THEN LET afterStart == (c.endLine + 1) + numNetLineChange(c)
             numRemainingLines == ann.endLine - c.endLine
             afterEnd == afterStart + numRemainingLines - 1
         IN <<[ann EXCEPT !.startLine = afterStart, !.endLine = afterEnd]>>
    ELSE <<>>

IsNonEmptyRange(ann) == ann.startLine <= ann.endLine

\* Mutant of processAnnotationForChangeAndClean: case 1 is missing.
processWithoutCaseOne(ann, c) ==
    IF EntirelyAfter(ann, c) THEN <<ShiftedAnnotation(ann, c)>>
    ELSE SelectSeq(BeforePart(ann, c) \o AfterPart(ann, c), IsNonEmptyRange)

processAnnotationForChangeAndClean(ann, c) ==
    IF EntirelyBefore(ann, c) THEN <<ann>>
    ELSE IF EntirelyAfter(ann, c) THEN <<ShiftedAnnotation(ann, c)>>
    ELSE SelectSeq(BeforePart(ann, c) \o AfterPart(ann, c), IsNonEmptyRange)

(***************************************************************************)
(* updateAndCleanAnnotationsForContentChange / ...ForCommit                *)
(***************************************************************************)
RECURSIVE updateAndCleanAnnotationsForContentChange(_, _)
updateAndCleanAnnotationsForContentChange(anns, c) ==
    IF anns = <<>> THEN <<>>
    ELSE processAnnotationForChangeAndClean(Head(anns), c)
         \o updateAndCleanAnnotationsForContentChange(Tail(anns), c)

\* Mutant of HigherStartLineFirst: the comparator of an ascending sort.
AscendingComparator(a, b) == a.startLine - b.startLine

\* The comparator (a, b) => b.startLine - a.startLine: a sorts before b
\* when it is negative.
HigherStartLineFirst(a, b) == b.startLine - a.startLine

\* x inserted into the sorted list s behind every element that does not
\* sort after it (Array.prototype.sort is stable).
RECURSIVE InsertDescending(_, _)
InsertDescending(s, x) ==
    IF s = <<>> THEN <<x>>
    ELSE IF HigherStartLineFirst(Head(s), x) <= 0
         THEN <<Head(s)>> \o InsertDescending(Tail(s), x)
         ELSE <<x>> \o s

\* Mutant of SortDescending: the changes are folded in the given order.
UnsortedChanges(cs) == cs

RECURSIVE SortDescending(_)
SortDescending(cs) ==
    IF cs = <<>> THEN <<>>
    ELSE InsertDescending(SortDescending(SubSeq(cs, 1, Len(cs) - 1)), cs[Len(cs)])

RECURSIVE FoldChanges(_, _)
FoldChanges(anns, sortedChanges) ==
    IF sortedChanges = <<>> THEN anns
    ELSE FoldChanges(updateAndCleanAnnotationsForContentChange(anns, Head(sortedChanges)),
                     Tail(sortedChanges))

updateAndCleanAnnotationsForCommit(anns, cs) ==
    FoldChanges(anns, SortDescending(cs))

(***************************************************************************)
(* addAnnotationsForSignificantChanges: one annotation per change, in the  *)
(* given order; stamps[i] is the clock read for the i-th change.           *)
(***************************************************************************)
\* Mutant of NewAnnotation: the range ends one line early.
NewAnnotationEndingEarly(c, t) ==
    [startLine |-> c.startLine,
     endLine |-> c.startLine + c.addedLines - 1,
     timestamp |-> t,
     type |-> AiGenerated]

NewAnnotation(c, t) ==
    [startLine |-> c.startLine,
     endLine |-> c.startLine + c.addedLines,
     timestamp |-> t,
     type |-> AiGenerated]

\* Mutant of addAnnotationsForSignificantChanges: the annotations come in the
\* order in which the changes are applied, highest startLine first.
addAnnotationsInAppliedOrder(contentChanges, stamps) ==
    [i \in 1..Len(contentChanges) |->
        NewAnnotation(SortDescending(contentChanges)[i], stamps[i])]

addAnnotationsForSignificantChanges(contentChanges, stamps) ==
    [i \in 1..Len(contentChanges) |-> NewAnnotation(contentChanges[i], stamps[i])]

(***************************************************************************)
(* squashOverlappingAnnotations                                            *)
(***************************************************************************)
\* Mutant of LowerStartLineFirst: the comparator of a descending sort.
HigherAnnotationFirst(a, b) == b.startLine - a.startLine

\* The comparator (a, b) => a.startLine - b.startLine.
LowerStartLineFirst(a, b) == a.startLine - b.startLine

RECURSIVE InsertAscending(_, _)
InsertAscending(s, x) ==
    IF s = <<>> THEN <<x>>
    ELSE IF LowerStartLineFirst(Head(s), x) <= 0
         THEN <<Head(s)>> \o InsertAscending(Tail(s), x)
         ELSE <<x>> \o s

RECURSIVE SortAscending(_)
SortAscending(anns) ==
    IF anns = <<>> THEN <<>>
    ELSE InsertAscending(SortAscending(SubSeq(anns, 1, Len(anns) - 1)), anns[Len(anns)])

Max(a, b) == IF a >= b THEN a ELSE b

\* Mutant of OverlapsOrAdjacent: adjacent ranges are not merged.
OverlapsOnly(last, current) == current.startLine <= last.endLine

\* The test "ranges overlap or are adjacent" of the loop.
OverlapsOrAdjacent(last, current) == current.startLine <= last.endLine + 1

\* Mutant of MergeInto: the end of the merged range is the end of current.
MergeOverwritingEnd(last, current) ==
    [last EXCEPT !.endLine = current.endLine,
                 !.timestamp = IF current.timestamp > last.timestamp
                               THEN current.timestamp ELSE last.timestamp]

\* Mutant of MergeInto: the merged range keeps the timestamp of last.
MergeKeepingFirstTimestamp(last, current) ==
    [last EXCEPT !.endLine = Max(last.endLine, current.endLine)]

\* last after current has been merged into it.
MergeInto(last, current) ==
    [last EXCEPT !.endLine = Max(last.endLine, current.endLine),
                 !.timestamp = IF current.timestamp > last.timestamp
                               THEN current.timestamp ELSE last.timestamp]

\* Mutant of SquashLoop: current is tested against its predecessor in the
\* sorted list, not against the merged range.
RECURSIVE SquashLoopComparingNeighbours(_, _, _)
SquashLoopComparingNeighbours(sorted, i, squashed) ==
    IF i > Len(sorted) THEN squashed
    ELSE LET current == sorted[i]
             last == squashed[Len(squashed)]
         IN IF OverlapsOrAdjacent(sorted[i - 1], current)
            THEN SquashLoopComparingNeighbours(sorted, i + 1,
                     [squashed EXCEPT ![Len(squashed)] = MergeInto(last, current)])
            ELSE SquashLoopComparingNeighbours(sorted, i + 1, Append(squashed, current))

\* The loop of squashOverlappingAnnotations from index i on.
RECURSIVE SquashLoop(_, _, _)
SquashLoop(sorted, i, squashed) ==
    IF i > Len(sorted) THEN squashed
    ELSE LET current == sorted[i]
             last == squashed[Len(squashed)]
         IN IF OverlapsOrAdjacent(last, current)
            THEN SquashLoop(sorted, i + 1,
                            [squashed EXCEPT ![Len(squashed)] = MergeInto(last, current)])
            ELSE SquashLoop(sorted, i + 1, Append(squashed, current))

squashOverlappingAnnotations(anns) ==
    IF Len(anns) <= 1 THEN anns
    ELSE LET sorted == SortAscending(anns)
         IN SquashLoop(sorted, 2, <<sorted[1]>>)

(***************************************************************************)
(* applyChange: stamps are the clock readings of the call, one per         *)
(* synthesized annotation and a last one for lastUpdated.                  *)
(***************************************************************************)
\* The newAnnotations pushed by applyChange: none unless the commit is
\* significant.
newAnnotations(c, stamps) ==
    IF c.isSignificant
    THEN addAnnotationsForSignificantChanges(c.contentChanges, stamps)
    ELSE <<>>

\* Mutant of applyChange: the new annotations are added before the changes
\* are applied to the list.
applyChangeSynthesizingFirst(snap, c, stamps) ==
    LET updatedRanges == snap.highlightedRanges \o newAnnotations(c, stamps)
    IN [highlightedRanges |-> squashOverlappingAnnotations(
                                  updateAndCleanAnnotationsForCommit(updatedRanges,
                                                                     c.contentChanges)),
        lastUpdated |-> stamps[Len(stamps)],
        documentVersion |-> c.documentVersion]

applyChange(snap, c, stamps) ==
    LET shifted == updateAndCleanAnnotationsForCommit(snap.highlightedRanges,
                                                      c.contentChanges)
        updatedRanges == IF c.isSignificant
                         THEN shifted \o addAnnotationsForSignificantChanges(
                                             c.contentChanges, stamps)
                         ELSE shifted
    IN [highlightedRanges |-> squashOverlappingAnnotations(updatedRanges),
        lastUpdated |-> stamps[Len(stamps)],
        documentVersion |-> c.documentVersion]

\* Mutant of createEmptySnapshot: the empty snapshot starts at version 1.
createSnapshotOfVersionOne(t) ==
    [highlightedRanges |-> <<>>, lastUpdated |-> t, documentVersion |-> 1]

createEmptySnapshot(t) ==
    [highlightedRanges |-> <<>>, lastUpdated |-> t, documentVersion |-> 0]

(***************************************************************************)
(* The store: loadSnapshot and saveSnapshot on the snapshot file of the    *)
(* document.  The file is missing, holds text that cannot be read back as  *)
(* a snapshot, or holds the JSON text of a snapshot.                       *)
(***************************************************************************)
MissingFile == [state |-> "missing", snapshot |-> createEmptySnapshot(0)]

UnreadableFile == [state |-> "unreadable", snapshot |-> createEmptySnapshot(0)]

FileOf(snap) == [state |-> "present", snapshot |-> snap]

\* loadSnapshot at clock reading t: the snapshot of the file, an empty one
\* when the file does not exist or reading or parsing it throws.
loadSnapshot(f, t) ==
    IF f.state = "present" THEN f.snapshot ELSE createEmptySnapshot(t)

\* What writeFileSync (or mkdirSync before it) does: it writes the text, it
\* throws before touching the file, or it throws after truncating it.
WriteOutcomes == {"written", "failed", "truncated"}

\* The file after saveSnapshot; the error of a failed write is caught.
saveSnapshot(f, snap, outcome) ==
    CASE outcome = "written" -> FileOf(snap)
      [] outcome = "failed" -> f
      [] outcome = "truncated" -> UnreadableFile

(***************************************************************************)
(* getSnapshotPath.  The path of a document relative to its workspace      *)
(* folder is a sequence of characters; the model has one character of the  *)
(* class [a-zA-Z0-9.-], the separator and the underscore.                  *)
(***************************************************************************)
PathCharacters == {"a", "/", "_"}

\* The characters of the model matched by [a-zA-Z0-9.-].
SafeCharacters == {"a"}

\* relativePath.replace(/[^a-zA-Z0-9.-]/g, '_')
safeFilename(relativePath) ==
    [i \in 1..Len(relativePath) |->
        IF relativePath[i] \in SafeCharacters THEN relativePath[i] ELSE "_"]

\* The file name getSnapshotPath joins to the .vscode folder of the workspace.
getSnapshotPath(relativePath) == safeFilename(relativePath) \o <<".annotations.json">>

\* A folder is a function from the names of the files it holds to the files.
NoFiles == [name \in {} |-> MissingFile]

\* The file of the folder under a name.
fileAt(dir, name) == IF name \in DOMAIN dir THEN dir[name] ELSE MissingFile

\* The folder after the file under a name became f.
fileWritten(dir, name, f) ==
    [n \in DOMAIN dir \cup {name} |-> IF n = name THEN f ELSE dir[n]]

\* The relative paths of the documents of the workspace: names separated by
\* single separators.
Documents ==
    {d \in UNION {[1..n -> PathCharacters] : n \in 1..MaxPathLen} :
        /\ d[1] # "/"
        /\ d[Len(d)] # "/"
        /\ \A i \in 1..(Len(d) - 1) : ~(d[i] = "/" /\ d[i + 1] = "/")}

(***************************************************************************)
(* hoverProvider.ts: removeAnnotation and removePartialAnnotation.         *)
(***************************************************************************)
\* Mutant of IsRequested: the timestamp is not compared.
IsRequestedRange(a, startLine, endLine, timestamp) ==
    a.startLine = startLine /\ a.endLine = endLine

\* The predicate given to findIndex.
IsRequested(a, startLine, endLine, timestamp) ==
    a.startLine = startLine /\ a.endLine = endLine /\ a.timestamp = timestamp

\* findIndex: the first index whose annotation is the requested one, 0
\* (-1 in the source, whose indices start at 0) when there is none.
findIndex(anns, startLine, endLine, timestamp) ==
    LET found == {i \in 1..Len(anns) : IsRequested(anns[i], startLine, endLine, timestamp)}
    IN IF found = {} THEN 0 ELSE CHOOSE i \in found : \A j \in found : i <= j

\* splice(index, 1)
splice(anns, index) == SubSeq(anns, 1, index - 1) \o SubSeq(anns, index + 1, Len(anns))

\* Mutant of remainingParts: the part before ends on the first removed line.
remainingPartsUpToRemovedLine(original, removeStartLine, removeEndLine, t1, t2) ==
    (IF removeStartLine > original.startLine
     THEN <<[original EXCEPT !.endLine = removeStartLine, !.timestamp = t1]>>
     ELSE <<>>)
        \o (IF removeEndLine < original.endLine
            THEN <<[original EXCEPT !.startLine = removeEndLine + 1, !.timestamp = t2]>>
            ELSE <<>>)

\* The annotations removePartialAnnotation pushes for the remaining parts;
\* t1 and t2 are the two clock readings.
remainingParts(original, removeStartLine, removeEndLine, t1, t2) ==
    (IF removeStartLine > original.startLine
     THEN <<[original EXCEPT !.endLine = removeStartLine - 1, !.timestamp = t1]>>
     ELSE <<>>)
        \o (IF removeEndLine < original.endLine
            THEN <<[original EXCEPT !.startLine = removeEndLine + 1, !.timestamp = t2]>>
            ELSE <<>>)

(***************************************************************************)
(* heuristicsSystem.ts.  A text is a sequence of characters; the model     *)
(* has one letter and two of the characters trim() removes.                *)
(***************************************************************************)
ACTION_TIMEOUT == 500

Characters == {"a", " ", "\n"}

Whitespace == {" ", "\n"}

RECURSIVE trimStart(_)
trimStart(text) ==
    IF text # <<>> /\ Head(text) \in Whitespace THEN trimStart(Tail(text)) ELSE text

RECURSIVE trimEnd(_)
trimEnd(text) ==
    IF text # <<>> /\ text[Len(text)] \in Whitespace
    THEN trimEnd(SubSeq(text, 1, Len(text) - 1))
    ELSE text

\* String.prototype.trim
trim(text) == trimEnd(trimStart(text))

\* (text.match(/\n/g) || []).length
newlines(text) == Cardinality({i \in 1..Len(text) : text[i] = "\n"})

\* Mutant of shouldFilterChange: the suspension flag is not consulted.
shouldFilterOnRecentActions(suspended, actions) ==
    IF Cardinality(actions) > 0 THEN TRUE ELSE FALSE

shouldFilterChange(suspended, actions) ==
    IF suspended THEN TRUE
    ELSE IF Cardinality(actions) > 0 THEN TRUE
    ELSE FALSE

\* Mutant of passesBasicSignificanceCheck: single characters pass.
passesWithSingleCharacter(text) ==
    IF text = <<>> THEN FALSE
    ELSE IF Len(trim(text)) = 0 THEN FALSE
    ELSE TRUE

passesBasicSignificanceCheck(text) ==
    IF text = <<>> THEN FALSE
    ELSE IF Len(trim(text)) = 0 THEN FALSE
    ELSE IF Len(trim(text)) = 1 THEN FALSE
    ELSE TRUE

isIndividualChangeSignificant(c, suspended, actions) ==
    IF shouldFilterChange(suspended, actions) THEN FALSE
    ELSE IF ~passesBasicSignificanceCheck(c.text) THEN FALSE
    ELSE TRUE

isChangeSignificant(contentChanges, suspended, actions) ==
    IF Len(contentChanges) = 0 THEN FALSE
    ELSE \E i \in 1..Len(contentChanges) :
             isIndividualChangeSignificant(contentChanges[i], suspended, actions)

\* Mutant of extractContentChange: the lines stay 0-based.
extractContentChangeZeroBased(c) ==
    [startLine |-> c.startLine,
     endLine |-> c.endLine,
     text |-> c.text,
     rangeLength |-> c.rangeLength,
     addedLines |-> IF c.text # <<>> THEN newlines(c.text) ELSE 0,
     deletedLines |-> IF c.rangeLength > 0 THEN c.endLine - c.startLine ELSE 0]

(***************************************************************************)
(* extractContentChanges.  An editor change has the 0-based lines of its   *)
(* range, the length of the replaced text and the inserted text.           *)
(***************************************************************************)
extractContentChange(c) ==
    [startLine |-> c.startLine + 1,
     endLine |-> c.endLine + 1,
     text |-> c.text,
     rangeLength |-> c.rangeLength,
     addedLines |-> IF c.text # <<>> THEN newlines(c.text) ELSE 0,
     deletedLines |-> IF c.rangeLength > 0 THEN c.endLine - c.startLine ELSE 0]

extractContentChanges(vsCodeChanges) ==
    [i \in 1..Len(vsCodeChanges) |-> extractContentChange(vsCodeChanges[i])]

(***************************************************************************)
(* Inputs.                                                                 *)
(***************************************************************************)
\* Lists of zero, one or two elements of S.
ListsOf(S) == {<<>>} \cup {<<x>> : x \in S} \cup {<<x, y>> : x \in S, y \in S}

\* Well-formed ranges of the lines 1..n.
Ranges(n) == {r \in (1..n) \X (1..n) : r[1] <= r[2]}

\* An edit as extractContentChanges builds it: deletedLines is the number
\* of line breaks of the replaced range.
ChangesWithin(n) ==
    {ContentChange(r[1], r[2], a, r[2] - r[1]) : r \in Ranges(n), a \in 0..MaxAdded}

CommitChanges == ChangesWithin(MaxLine)

DocumentChanges == ChangesWithin(MaxDocLine)

StoredAnnotations == {Annotation(r[1], r[2], 0) : r \in Ranges(MaxLine)}

TransformAnnotations ==
    {Annotation(r[1], r[2], t) : r \in Ranges(MaxTransformLine), t \in 0..MaxClock}

TransformChanges ==
    {ContentChange(r[1], r[2], a, d) :
        r \in Ranges(MaxTransformLine), a \in 0..MaxTransformAdded, d \in 0..MaxDeleted}

BatchAnnotations == {Annotation(r[1], r[2], 0) : r \in Ranges(MaxBatchLine)}

\* Single-line edits that delete no line: insertions and in-line replacements.
BatchChanges ==
    {ContentChange(l, l, a, 0) : l \in 1..MaxBatchLine, a \in 0..MaxBatchAdded}

NoAnnotation == Annotation(0, 0, 0)
NoChange == ContentChange(0, 0, 0, 0)
NoCommit == Commit(0, FALSE, <<>>)

\* The change events of the document, in the order the editor fires them.
Handlers == {1, 2}

\* A handleDocumentChange call not yet made.
NoHandler ==
    [pc |-> "pending", currentSnapshot |-> createEmptySnapshot(0), contentChanges |-> <<>>,
     reason |-> "", isSignificant |-> FALSE, outcome |-> ""]

NoRemoval == [removeStartLine |-> 0, removeEndLine |-> 0]

\* The clock readings of one applyChange call: one per change of a
\* significant commit and one for lastUpdated, all taken at time t.
Stamps(c, t) == [i \in 1..(Len(c.contentChanges) + 1) |-> t]

WithinDocument(snap) ==
    \A i \in 1..Len(snap.highlightedRanges) : snap.highlightedRanges[i].endLine <= MaxDocLine

(***************************************************************************)
(* Spec: the snapshot of one document, empty when the document is first    *)
(* observed, replaced by applyChange at every change of the document.      *)
(***************************************************************************)
Idle ==
    /\ annotation = NoAnnotation
    /\ change = NoChange
    /\ annotations = <<>>
    /\ changes = <<>>
    /\ results = <<>>

\* No command has run and nothing has been saved.
NoCommandRun ==
    /\ saveCalls = 0
    /\ error = ""
    /\ removal = NoRemoval
    /\ handlers = [h \in Handlers |-> NoHandler]
    /\ folder = NoFiles
    /\ saved = NoFiles

\* The HeuristicsSystem as its constructor leaves it.
HeuristicsIdle ==
    /\ gitOperationSuspended = FALSE
    /\ recentActions = {}
    /\ actionTimeout = 0
    /\ timers = {}
    /\ notifications = 0
    /\ significant = FALSE

ExtensionIdle ==
    /\ file = MissingFile
    /\ NoCommandRun
    /\ HeuristicsIdle

Init ==
    /\ now = 0
    /\ snapshot = createEmptySnapshot(0)
    /\ newSnapshot = createEmptySnapshot(0)
    /\ commit = NoCommit
    /\ pc = "idle"
    /\ Idle
    /\ ExtensionIdle

Tick ==
    /\ now < MaxClock
    /\ now' = now + 1
    /\ UNCHANGED <<snapshot, newSnapshot, commit, annotation, change, annotations,
                   changes, results, pc>>
    /\ UNCHANGED extension

\* loadSnapshot, applyChange, saveSnapshot of one document change.
ApplyChange ==
    \E v \in 1..MaxVersion, sig \in BOOLEAN, cs \in ListsOf(DocumentChanges) :
        LET c == Commit(v, sig, cs)
        IN /\ snapshot' = applyChange(snapshot, c, Stamps(c, now))
           /\ WithinDocument(snapshot')
           /\ newSnapshot' = snapshot'
           /\ pc' = "applyChange"
           /\ UNCHANGED <<commit, now, annotation, change, annotations, changes, results>>
           /\ UNCHANGED extension

Next == Tick \/ ApplyChange

Spec == Init /\ [][Next]_vars

(***************************************************************************)
(* SpecApply: one applyChange call on any snapshot of well-formed          *)
(* annotations (sorted or not, overlapping or not).                        *)
(***************************************************************************)
InitApply ==
    /\ now = 1
    /\ snapshot \in {Snapshot(rs, 0, 1) : rs \in ListsOf(StoredAnnotations)}
    /\ newSnapshot = createEmptySnapshot(0)
    /\ commit = NoCommit
    /\ pc = "idle"
    /\ Idle
    /\ ExtensionIdle

CallApplyChange ==
    /\ pc = "idle"
    /\ \E sig \in BOOLEAN, cs \in ListsOf(CommitChanges) :
        LET c == Commit(snapshot.documentVersion + 1, sig, cs)
        IN /\ commit' = c
           /\ newSnapshot' = applyChange(snapshot, c, Stamps(c, now))
    /\ pc' = "applyChange"
    /\ UNCHANGED <<snapshot, now, annotation, change, annotations, changes, results>>
    /\ UNCHANGED extension

NextApply == CallApplyChange

SpecApply == InitApply /\ [][NextApply]_vars

(***************************************************************************)
(* SpecTransform: one processAnnotationForChangeAndClean call.             *)
(***************************************************************************)
CallProcessAnnotation ==
    /\ pc = "idle"
    /\ \E ann \in TransformAnnotations, c \in TransformChanges :
        /\ annotation' = ann
        /\ change' = c
        /\ results' = processAnnotationForChangeAndClean(ann, c)
    /\ pc' = "processAnnotationForChangeAndClean"
    /\ UNCHANGED <<snapshot, newSnapshot, commit, now, annotations, changes>>
    /\ UNCHANGED extension

NextTransform == CallProcessAnnotation

SpecTransform == Init /\ [][NextTransform]_vars

(***************************************************************************)
(* SpecBatch: one updateAndCleanAnnotationsForCommit call with single-line *)
(* edits.                                                                  *)
(***************************************************************************)
CallUpdateAndClean ==
    /\ pc = "idle"
    /\ \E anns \in {<<>>} \cup {<<a>> : a \in BatchAnnotations},
          cs \in ListsOf(BatchChanges) :
        /\ annotations' = anns
        /\ changes' = cs
        /\ results' = updateAndCleanAnnotationsForCommit(anns, cs)
    /\ pc' = "updateAndCleanAnnotationsForCommit"
    /\ UNCHANGED <<snapshot, newSnapshot, commit, now, annotation, change>>
    /\ UNCHANGED extension

NextBatch == CallUpdateAndClean

SpecBatch == Init /\ [][NextBatch]_vars

(***************************************************************************)
(* Properties of processAnnotationForChangeAndClean (SpecTransform).       *)
(***************************************************************************)
Transformed == pc = "processAnnotationForChangeAndClean"

\* The (startLine, endLine) pairs of a list of annotations.
RangesOf(anns) == [i \in 1..Len(anns) |-> <<anns[i].startLine, anns[i].endLine>>]

Delta == change.addedLines - change.deletedLines

\* The before- and after-fragment an overlapping annotation is expected to leave.
ExpectedBefore ==
    IF annotation.startLine < change.startLine
    THEN <<[annotation EXCEPT !.endLine = change.startLine - 1]>>
    ELSE <<>>

ExpectedAfter ==
    IF annotation.endLine > change.endLine
    THEN <<[annotation EXCEPT !.startLine = change.endLine + 1 + Delta,
                              !.endLine = annotation.endLine + Delta]>>
    ELSE <<>>

\* C2: every range the transform returns ends at or before edit.startLine - 1
\* or starts at or after edit.endLine + 1 + delta: no returned range covers a
\* line of the edited region, whatever the edit adds or deletes.
C2_TouchedLinesLoseAnnotation ==
    Transformed =>
        \A i \in 1..Len(results) :
            \/ results[i].endLine <= change.startLine - 1
            \/ results[i].startLine >= change.endLine + 1 + Delta

\* An edit inside an annotation that deletes nothing and adds nothing has
\* split it in two.
C2_Witness ==
    /\ Transformed
    /\ change.addedLines = 0 /\ change.deletedLines = 0
    /\ annotation.startLine < change.startLine
    /\ annotation.endLine > change.endLine
    /\ Len(results) = 2

\* C5: an annotation overlapping the edit yields the before-fragment
\* [s, edit.startLine - 1] exactly when s < edit.startLine, then the
\* after-fragment [edit.endLine + 1 + delta, e + delta] exactly when
\* e > edit.endLine, and nothing else; [3,8] with an edit replacing [5,6]
\* (0 added, 1 deleted) yields [3,4] and [6,7].
C5_OverlapSplit ==
    /\ (Transformed
        /\ ~(annotation.endLine < change.startLine)
        /\ ~(annotation.startLine > change.endLine))
       => results = ExpectedBefore \o ExpectedAfter
    /\ (Transformed
        /\ RangesOf(<<annotation>>) = <<<<3, 8>>>>
        /\ change = ContentChange(5, 6, 0, 1))
       => RangesOf(results) = <<<<3, 4>>, <<6, 7>>>>

C5_Witness ==
    /\ Transformed
    /\ RangesOf(<<annotation>>) = <<<<3, 8>>>>
    /\ change = ContentChange(5, 6, 0, 1)
    /\ Len(results) = 2

\* C6: an annotation that ends before the edit starts, the adjacent case
\* included, is returned alone and unchanged in startLine, endLine, timestamp
\* and type, whatever the edit adds or deletes.
C6_EntirelyBeforeUnchanged ==
    (Transformed /\ annotation.endLine < change.startLine)
        => results = <<annotation>>

C6_Witness ==
    /\ Transformed
    /\ annotation.endLine = change.startLine - 1
    /\ annotation.startLine < annotation.endLine
    /\ change.addedLines > 0 /\ change.deletedLines > 0
    /\ results = <<annotation>>

\* C7: an annotation that starts after the edit ends, the adjacent case
\* included, is returned alone with startLine and endLine both shifted by
\* delta = addedLines - deletedLines, so its length is unchanged.
C7_EntirelyAfterShifted ==
    (Transformed /\ annotation.startLine > change.endLine)
        => /\ results = <<[annotation EXCEPT !.startLine = annotation.startLine + Delta,
                                             !.endLine = annotation.endLine + Delta]>>
           /\ results[1].endLine - results[1].startLine
                  = annotation.endLine - annotation.startLine

C7_Witness ==
    /\ Transformed
    /\ annotation.startLine = change.endLine + 1
    /\ annotation.startLine < annotation.endLine
    /\ Delta < 0
    /\ Len(results) = 1
    /\ results[1].startLine = annotation.startLine + Delta

\* C8: an edit that covers or exactly equals the annotation consumes it: the
\* transform returns the empty list, whatever the edit adds or deletes.
C8_FullConsumption ==
    (Transformed
     /\ change.startLine <= annotation.startLine
     /\ annotation.endLine <= change.endLine)
        => results = <<>>

C8_Witness ==
    /\ Transformed
    /\ RangesOf(<<annotation>>) = <<<<5, 6>>>>
    /\ change.startLine = 4 /\ change.endLine = 7
    /\ change.addedLines > 0
    /\ results = <<>>

\* C9: a single-line edit at line L inside annotation [s,e] that deletes no
\* line drops line L and keeps the rest: [s, L-1] if s < L, then
\* [L + 1 + addedLines, e + addedLines] if e > L; nothing for s = e = L.
C9_InsertionPointInvalidatesLine ==
    (Transformed
     /\ change.startLine = change.endLine
     /\ change.deletedLines = 0
     /\ annotation.startLine <= change.startLine
     /\ change.startLine <= annotation.endLine)
        => LET L == change.startLine
               s == annotation.startLine
               e == annotation.endLine
           IN /\ RangesOf(results)
                    = (IF s < L THEN <<<<s, L - 1>>>> ELSE <<>>)
                      \o (IF e > L
                          THEN <<<<L + 1 + change.addedLines, e + change.addedLines>>>>
                          ELSE <<>>)
              /\ (s = L /\ e = L) => results = <<>>

\* A zero-width insertion of one line at the only line of an annotation.
C9_Witness ==
    /\ Transformed
    /\ change = ContentChange(4, 4, 1, 0)
    /\ RangesOf(<<annotation>>) = <<<<4, 4>>>>
    /\ results = <<>>

(***************************************************************************)
(* Properties of applyChange on any snapshot (SpecApply).                  *)
(***************************************************************************)
Applied == pc = "applyChange"

\* C1: the annotations of the snapshot applyChange returns are pairwise
\* non-overlapping and non-adjacent: for distinct a, b with
\* a.startLine <= b.startLine, b.startLine > a.endLine + 1.
C1_NonOverlap ==
    Applied =>
        LET rs == newSnapshot.highlightedRanges
        IN \A i \in 1..Len(rs), j \in 1..Len(rs) :
               (i # j /\ rs[i].startLine <= rs[j].startLine)
                   => rs[j].startLine > rs[i].endLine + 1

\* A significant commit on a snapshot of two annotations, the second one
\* ending just before the first one starts, has left two annotations.
C1_Witness ==
    /\ Applied
    /\ commit.isSignificant
    /\ Len(commit.contentChanges) = 2
    /\ Len(snapshot.highlightedRanges) = 2
    /\ snapshot.highlightedRanges[2].endLine + 1 = snapshot.highlightedRanges[1].startLine
    /\ Len(newSnapshot.highlightedRanges) = 2

PairwiseDisjoint(cs) ==
    \A i \in 1..Len(cs), j \in 1..Len(cs) :
        i # j => (cs[i].endLine < cs[j].startLine \/ cs[j].endLine < cs[i].startLine)

\* The summed deltas of the edits of cs that start before the given line.
RECURSIVE SumDeltasBelow(_, _)
SumDeltasBelow(cs, line) ==
    IF cs = <<>> THEN 0
    ELSE (IF Head(cs).startLine < line
          THEN Head(cs).addedLines - Head(cs).deletedLines ELSE 0)
         + SumDeltasBelow(Tail(cs), line)

Intersects(ann, lo, hi) == ann.startLine <= hi /\ lo <= ann.endLine

\* C3: after a non-significant commit whose edits have pairwise disjoint line
\* ranges, no annotation of the returned snapshot intersects the replaced
\* region of an edit e in post-commit coordinates,
\* [e.startLine + S, e.startLine + e.addedLines + S], S being the summed
\* deltas of the edits of the commit with a smaller startLine.
C3_NoAnnotationOnModifiedLine ==
    (Applied /\ ~commit.isSignificant /\ PairwiseDisjoint(commit.contentChanges))
        => \A k \in 1..Len(commit.contentChanges) :
               LET e == commit.contentChanges[k]
                   S == SumDeltasBelow(commit.contentChanges, e.startLine)
               IN \A i \in 1..Len(newSnapshot.highlightedRanges) :
                      ~Intersects(newSnapshot.highlightedRanges[i],
                                  e.startLine + S, e.startLine + e.addedLines + S)

\* Two disjoint edits, the lower one with a non-zero delta, inside one
\* annotation that keeps a fragment behind each of them.
C3_Witness ==
    /\ Applied
    /\ ~commit.isSignificant
    /\ Len(commit.contentChanges) = 2
    /\ PairwiseDisjoint(commit.contentChanges)
    /\ commit.contentChanges[1].startLine < commit.contentChanges[2].startLine
    /\ commit.contentChanges[1].addedLines # commit.contentChanges[1].deletedLines
    /\ Len(snapshot.highlightedRanges) = 1
    /\ snapshot.highlightedRanges[1].startLine <= commit.contentChanges[1].startLine
    /\ snapshot.highlightedRanges[1].endLine > commit.contentChanges[2].endLine
    /\ Len(newSnapshot.highlightedRanges) = 2

(***************************************************************************)
(* Properties of the persisted snapshot (Spec).                            *)
(***************************************************************************)
\* C4: starting from the empty snapshot, after any sequence of applyChange
\* calls with edits 1 <= startLine <= endLine, addedLines >= 0 and
\* deletedLines = endLine - startLine, every stored annotation satisfies
\* 1 <= startLine <= endLine.
C4_ValidRange ==
    \A i \in 1..Len(snapshot.highlightedRanges) :
        /\ 1 <= snapshot.highlightedRanges[i].startLine
        /\ snapshot.highlightedRanges[i].startLine <= snapshot.highlightedRanges[i].endLine

\* Two annotations created by different commits are stored.
C4_Witness ==
    /\ Applied
    /\ Len(snapshot.highlightedRanges) = 2
    /\ snapshot.highlightedRanges[1].timestamp # snapshot.highlightedRanges[2].timestamp

(***************************************************************************)
(* Properties of updateAndCleanAnnotationsForCommit (SpecBatch).           *)
(***************************************************************************)
Batched == pc = "updateAndCleanAnnotationsForCommit"

InsertThreeAtFive == ContentChange(5, 5, 3, 0)
ReplaceAtTen == ContentChange(10, 10, 0, 0)

ReverseOrderScenario ==
    /\ Batched
    /\ RangesOf(annotations) = <<<<8, 10>>>>
    /\ changes \in {<<InsertThreeAtFive, ReplaceAtTen>>, <<ReplaceAtTen, InsertThreeAtFive>>}

\* C10: the edits of a commit are applied highest startLine first, whatever
\* their order in the commit: annotation [8,10] with an insertion of 3 lines
\* at line 5 and a zero-delta replacement at line 10 gives exactly [11,12],
\* whereas folding the same edits in ascending startLine order gives [11,13].
C10_HighestStartLineFirst ==
    /\ ReverseOrderScenario
        => /\ RangesOf(results) = <<<<11, 12>>>>
           /\ RangesOf(FoldChanges(annotations, <<InsertThreeAtFive, ReplaceAtTen>>))
                  = <<<<11, 13>>>>
    /\ (Batched /\ Len(changes) = 2 /\ changes[1].startLine # changes[2].startLine)
        => LET hi == IF changes[1].startLine > changes[2].startLine
                     THEN changes[1] ELSE changes[2]
               lo == IF changes[1].startLine > changes[2].startLine
                     THEN changes[2] ELSE changes[1]
           IN results = updateAndCleanAnnotationsForContentChange(
                            updateAndCleanAnnotationsForContentChange(annotations, hi), lo)

\* The scenario with the lower edit given first.
C10_Witness ==
    /\ ReverseOrderScenario
    /\ changes[1] = InsertThreeAtFive
    /\ Len(results) = 1

(***************************************************************************)
(* SpecEdits: one updateAndCleanAnnotationsForCommit call with edits of    *)
(* any shape: an edit of the lines s..e deletes between no line and all    *)
(* of its e - s + 1 lines.                                                 *)
(***************************************************************************)
EditChanges ==
    {ContentChange(r[1], r[2], a, d) :
        r \in Ranges(MaxDocLine), a \in 0..MaxAdded, d \in 0..MaxDocLine}

WellFormedEdit(c) == c.deletedLines <= c.endLine - c.startLine + 1

CallBatchApply ==
    /\ pc = "idle"
    /\ \E anns \in ListsOf(StoredAnnotations),
          cs \in ListsOf({c \in EditChanges : WellFormedEdit(c)}) :
        /\ annotations' = anns
        /\ changes' = cs
        /\ results' = updateAndCleanAnnotationsForCommit(anns, cs)
    /\ pc' = "updateAndCleanAnnotationsForCommit"
    /\ UNCHANGED <<snapshot, newSnapshot, commit, now, annotation, change>>
    /\ UNCHANGED extension

NextEdits == CallBatchApply

SpecEdits == Init /\ [][NextEdits]_vars

\* The edits of cs applied one at a time in the given order, each one's
\* startLine and endLine first shifted by the summed deltas of the edits
\* applied before it.
RECURSIVE ProgressiveFold(_, _, _)
ProgressiveFold(anns, cs, shift) ==
    IF cs = <<>> THEN anns
    ELSE LET e == Head(cs)
             moved == [e EXCEPT !.startLine = e.startLine + shift,
                                !.endLine = e.endLine + shift]
         IN ProgressiveFold(updateAndCleanAnnotationsForContentChange(anns, moved),
                            Tail(cs), shift + (e.addedLines - e.deletedLines))

\* The edits of a list of pairwise distinct startLines, lowest startLine first.
RECURSIVE LowestFirst(_)
LowestFirst(cs) ==
    IF cs = <<>> THEN <<>>
    ELSE LET k == CHOOSE i \in 1..Len(cs) :
                      \A j \in 1..Len(cs) : cs[i].startLine <= cs[j].startLine
         IN <<cs[k]>> \o LowestFirst(SubSeq(cs, 1, k - 1) \o SubSeq(cs, k + 1, Len(cs)))

DeletesLineBreaks(cs) ==
    \A i \in 1..Len(cs) : cs[i].deletedLines = cs[i].endLine - cs[i].startLine

\* C11: for edits with pairwise disjoint line ranges and
\* deletedLines = endLine - startLine, the descending-startLine fold over
\* original coordinates returns the same list as applying the edits one at
\* a time in ascending startLine order, each shifted by the summed deltas of
\* the lower edits already applied.
C11_OrderingInvariant ==
    (Batched /\ PairwiseDisjoint(changes) /\ DeletesLineBreaks(changes))
        => results = ProgressiveFold(annotations, LowestFirst(changes), 0)

\* Two disjoint edits, the lower one with a non-zero delta, the higher one
\* inside the annotation.
C11_Witness ==
    /\ Batched
    /\ Len(changes) = 2
    /\ PairwiseDisjoint(changes)
    /\ DeletesLineBreaks(changes)
    /\ changes[1].startLine < changes[2].startLine
    /\ changes[1].addedLines # changes[1].deletedLines
    /\ Len(annotations) = 1
    /\ annotations[1].startLine < changes[2].startLine
    /\ annotations[1].endLine > changes[2].endLine
    /\ Len(results) = 2

\* The lists with the elements of cs in another order.
Reorderings(cs) ==
    {p \in [1..Len(cs) -> {cs[i] : i \in 1..Len(cs)}] :
        \E f \in [1..Len(cs) -> 1..Len(cs)] :
            /\ \A i, j \in 1..Len(cs) : i # j => f[i] # f[j]
            /\ \A i \in 1..Len(cs) : p[i] = cs[f[i]]}

DistinctStartLines(cs) ==
    \A i, j \in 1..Len(cs) : i # j => cs[i].startLine # cs[j].startLine

\* C12 (as claimed): updateAndCleanAnnotationsForCommit returns the same
\* result for every permutation of the same list of edits, including edits
\* that share a startLine or touch the same lines.
C12_AnyPermutation ==
    Batched =>
        \A p \in Reorderings(changes) :
            updateAndCleanAnnotationsForCommit(annotations, p) = results

\* C12 (amended): updateAndCleanAnnotationsForCommit returns the same result
\* for every permutation of a list of edits with pairwise distinct
\* startLines, also when they touch the same lines; edits that share a
\* startLine are applied in the order of the commit.
C12_PermutationOfDistinctStartLines ==
    (Batched /\ DistinctStartLines(changes)) =>
        \A p \in Reorderings(changes) :
            updateAndCleanAnnotationsForCommit(annotations, p) = results

\* Two edits of different startLines that touch the same line, the lower
\* one given first, inside an annotation.
C12_Witness ==
    /\ Batched
    /\ Len(changes) = 2
    /\ changes[1].startLine < changes[2].startLine
    /\ changes[1].endLine >= changes[2].startLine
    /\ changes[1].addedLines > 0
    /\ Len(annotations) = 1
    /\ annotations[1].endLine > changes[2].endLine
    /\ results # <<>>
    /\ results # FoldChanges(annotations, changes)

NetDelta(c) == c.addedLines - c.deletedLines

AfterAllEdits(ann, cs) == \A k \in 1..Len(cs) : ann.startLine > cs[k].endLine

\* C13: for a batch of two edits with disjoint line ranges and net deltas +N
\* and -N, every annotation lying entirely after both edits' ranges comes out
\* of updateAndCleanAnnotationsForCommit with the startLine and endLine it had.
C13_NetZeroRestoresPosition ==
    (Batched
     /\ Len(changes) = 2
     /\ PairwiseDisjoint(changes)
     /\ NetDelta(changes[1]) + NetDelta(changes[2]) = 0)
        => /\ \A i \in 1..Len(annotations) :
                  AfterAllEdits(annotations[i], changes)
                      => \E j \in 1..Len(results) : results[j] = annotations[i]
           /\ (\A i \in 1..Len(annotations) : AfterAllEdits(annotations[i], changes))
                  => results = annotations

\* The lower edit adds a line, the higher one removes one, and an annotation
\* starts right after the higher edit.
C13_Witness ==
    /\ Batched
    /\ Len(changes) = 2
    /\ changes[1].endLine < changes[2].startLine
    /\ NetDelta(changes[1]) > 0
    /\ NetDelta(changes[1]) + NetDelta(changes[2]) = 0
    /\ Len(annotations) = 1
    /\ annotations[1].startLine = changes[2].endLine + 1
    /\ results = annotations

(***************************************************************************)
(* SpecSquash: one squashOverlappingAnnotations call on up to three        *)
(* annotations, inverted ones (startLine > endLine) included.              *)
(***************************************************************************)
SquashAnnotations ==
    {Annotation(st, en, t) : st \in 1..MaxSquashLine, en \in 1..MaxSquashLine,
                             t \in 0..MaxStamp}

\* Lists of zero to three elements of S.
ListsOfThree(S) == ListsOf(S) \cup {<<x, y, z>> : x \in S, y \in S, z \in S}

CallSquash ==
    /\ pc = "idle"
    /\ \E anns \in ListsOfThree(SquashAnnotations) :
        /\ annotations' = anns
        /\ results' = squashOverlappingAnnotations(anns)
    /\ pc' = "squashOverlappingAnnotations"
    /\ UNCHANGED <<snapshot, newSnapshot, commit, now, annotation, change, changes>>
    /\ UNCHANGED extension

NextSquash == CallSquash

SpecSquash == Init /\ [][NextSquash]_vars

Squashed == pc = "squashOverlappingAnnotations"

AllWellFormed(anns) == \A i \in 1..Len(anns) : anns[i].startLine <= anns[i].endLine

\* a and b overlap, nest or are adjacent with no line between them.
Touch(a, b) == a.startLine <= b.endLine + 1 /\ b.startLine <= a.endLine + 1

\* anns[i] and anns[j] are linked by a chain of at most n touching ranges.
RECURSIVE Linked(_, _, _, _)
Linked(anns, i, j, n) ==
    \/ i = j
    \/ /\ n > 0
       /\ \E k \in 1..Len(anns) : Touch(anns[i], anns[k]) /\ Linked(anns, k, j, n - 1)

Contains(outer, inner) ==
    outer.startLine <= inner.startLine /\ inner.endLine <= outer.endLine

CoveredLines(anns) == UNION {anns[i].startLine..anns[i].endLine : i \in 1..Len(anns)}

\* C14: for annotations with startLine <= endLine the merge returns ranges
\* sorted ascending by startLine, two input ranges lie in the same output
\* range exactly when a chain of overlapping, nested or adjacent ranges links
\* them, and the output covers exactly the lines the input covers.
C14_MergeResult ==
    (Squashed /\ AllWellFormed(annotations))
        => /\ \A k \in 1..(Len(results) - 1) :
                  results[k].startLine < results[k + 1].startLine
           /\ \A i \in 1..Len(annotations) :
                  Cardinality({k \in 1..Len(results) :
                                   Contains(results[k], annotations[i])}) = 1
           /\ \A i \in 1..Len(annotations), j \in 1..Len(annotations) :
                  (\E k \in 1..Len(results) :
                       /\ Contains(results[k], annotations[i])
                       /\ Contains(results[k], annotations[j]))
                      <=> Linked(annotations, i, j, Len(annotations))
           /\ CoveredLines(results) = CoveredLines(annotations)

\* A small range nested in a large one and a third range adjacent to the
\* large one only, given last range first: one range comes out.
C14_Witness ==
    /\ Squashed
    /\ AllWellFormed(annotations)
    /\ Len(annotations) = 3
    /\ annotations[1].startLine = annotations[2].endLine + 1
    /\ Contains(annotations[2], annotations[3])
    /\ annotations[3].endLine < annotations[2].endLine
    /\ ~Touch(annotations[1], annotations[3])
    /\ Len(results) = 1

\* C15: merging the merged list again changes nothing, neither ranges nor
\* timestamps.
C15_MergeIdempotent ==
    Squashed => squashOverlappingAnnotations(results) = results

\* Three annotations of different timestamps were merged into two.
C15_Witness ==
    /\ Squashed
    /\ Len(annotations) = 3
    /\ Len(results) = 2
    /\ results # annotations
    /\ annotations[1].timestamp # annotations[2].timestamp

SetOfRanges(anns) == {<<anns[i].startLine, anns[i].endLine>> : i \in 1..Len(anns)}

\* C16: for any annotation list the merge returns the same set of
\* (startLine, endLine) ranges for every permutation of its input.
C16_MergeOrderIndependent ==
    Squashed =>
        \A p \in Reorderings(annotations) :
            SetOfRanges(squashOverlappingAnnotations(p)) = SetOfRanges(results)

MaxOf(S) == CHOOSE x \in S : \A y \in S : y <= x

\* C17: each range the merge returns carries the latest timestamp among the
\* input annotations merged into it (those lying within it); a range nothing
\* was merged into keeps its own timestamp.
C17_MergeKeepsLatestTimestamp ==
    (Squashed /\ AllWellFormed(annotations))
        => \A k \in 1..Len(results) :
               results[k].timestamp
                   = MaxOf({annotations[i].timestamp :
                               i \in {j \in 1..Len(annotations) :
                                         Contains(results[k], annotations[j])}})

\* A chain of three annotations, the newest one first in the merged range.
C17_Witness ==
    /\ Squashed
    /\ AllWellFormed(annotations)
    /\ Len(annotations) = 3
    /\ Len(results) = 1
    /\ annotations[1].startLine < annotations[2].startLine
    /\ annotations[2].startLine < annotations[3].startLine
    /\ annotations[1].timestamp > annotations[2].timestamp
    /\ results[1].timestamp = annotations[1].timestamp

(***************************************************************************)
(* SpecCompose: one applyChange call with a commit of any version, lower   *)
(* than the snapshot's included; annotations and results record the two    *)
(* lists the call builds before it merges them.                            *)
(***************************************************************************)
CallApplyChangeAnyVersion ==
    /\ pc = "idle"
    /\ \E v \in 0..(MaxVersion + 1), sig \in BOOLEAN, cs \in ListsOf(DocumentChanges) :
        LET c == Commit(v, sig, cs)
        IN /\ commit' = c
           /\ annotations' = updateAndCleanAnnotationsForCommit(snapshot.highlightedRanges, cs)
           /\ results' = newAnnotations(c, Stamps(c, now))
           /\ newSnapshot' = applyChange(snapshot, c, Stamps(c, now))
    /\ pc' = "applyChange"
    /\ UNCHANGED <<snapshot, now, annotation, change, changes>>
    /\ UNCHANGED extension

NextCompose == CallApplyChangeAnyVersion

SpecCompose == InitApply /\ [][NextCompose]_vars

\* C18: the synthesizer returns one annotation per edit, in the commit's
\* order, from edit.startLine to edit.startLine + edit.addedLines, and all of
\* them reach the new snapshot; a non-significant commit synthesizes nothing:
\* the new snapshot is the merge of the shifted annotations alone and holds
\* no annotation created by the call.
C18_OneAnnotationPerEdit ==
    Applied =>
        LET edits == commit.contentChanges
            merged == newSnapshot.highlightedRanges
        IN IF commit.isSignificant
           THEN /\ Len(results) = Len(edits)
                /\ \A i \in 1..Len(edits) :
                       /\ results[i].startLine = edits[i].startLine
                       /\ results[i].endLine = edits[i].startLine + edits[i].addedLines
                       /\ results[i].timestamp = now
                       /\ \E k \in 1..Len(merged) :
                              /\ merged[k].startLine <= results[i].startLine
                              /\ results[i].endLine <= merged[k].endLine
           ELSE /\ results = <<>>
                /\ merged = squashOverlappingAnnotations(annotations)
                /\ \A k \in 1..Len(merged) : merged[k].timestamp # now

\* Two edits, the lower one second, one of them deleting only: two
\* annotations in the commit's order.
C18_Witness ==
    /\ Applied
    /\ commit.isSignificant
    /\ Len(commit.contentChanges) = 2
    /\ commit.contentChanges[1].startLine > commit.contentChanges[2].startLine
    /\ commit.contentChanges[1].addedLines = 0
    /\ commit.contentChanges[1].deletedLines > 0
    /\ Len(results) = 2
    /\ results[1].startLine > results[2].startLine

\* C19: the annotations applyChange returns are the merge of the batch-applied
\* annotations followed by the synthesized ones (when the commit is
\* significant), and its documentVersion is the commit's, whatever the
\* snapshot's version.
C19_ComposesInOrder ==
    Applied =>
        LET edits == commit.contentChanges
            applied == updateAndCleanAnnotationsForCommit(snapshot.highlightedRanges, edits)
            synthesized == IF commit.isSignificant
                           THEN addAnnotationsForSignificantChanges(edits, Stamps(commit, now))
                           ELSE <<>>
        IN /\ newSnapshot.highlightedRanges
                  = squashOverlappingAnnotations(applied \o synthesized)
           /\ newSnapshot.documentVersion = commit.documentVersion

\* A significant commit of a lower version than the snapshot's, whose edit
\* cuts a stored annotation; the new annotation stays.
C19_Witness ==
    /\ Applied
    /\ commit.isSignificant
    /\ commit.documentVersion < snapshot.documentVersion
    /\ newSnapshot.documentVersion < snapshot.documentVersion
    /\ Len(commit.contentChanges) = 1
    /\ Len(snapshot.highlightedRanges) = 1
    /\ annotations # snapshot.highlightedRanges
    /\ \E k \in 1..Len(newSnapshot.highlightedRanges) :
           newSnapshot.highlightedRanges[k].timestamp = now

\* The list is sorted ascending and no two ranges overlap or are adjacent.
Normalised(anns) ==
    \A k \in 1..(Len(anns) - 1) : anns[k].endLine + 1 < anns[k + 1].startLine

\* C20 as stated: for every snapshot a commit without edits, significant or
\* not, returns the snapshot's annotation list, the batch applicator returns
\* its input for an empty edit list, and an empty list stays empty under a
\* non-significant commit.
C20_IdentityOnEmptyEdits ==
    Applied =>
        /\ commit.contentChanges = <<>>
               => /\ newSnapshot.highlightedRanges = snapshot.highlightedRanges
                  /\ updateAndCleanAnnotationsForCommit(snapshot.highlightedRanges, <<>>)
                         = snapshot.highlightedRanges
        /\ (snapshot.highlightedRanges = <<>> /\ ~commit.isSignificant)
               => newSnapshot.highlightedRanges = <<>>

\* C20 amended: a commit without edits returns the merge of the snapshot's
\* annotation list, which is that list itself when it is sorted ascending
\* with no two ranges overlapping or adjacent; the batch applicator returns
\* its input for an empty edit list, and an empty list stays empty under a
\* non-significant commit.
C20_MergeOnEmptyEdits ==
    Applied =>
        /\ commit.contentChanges = <<>>
               => /\ newSnapshot.highlightedRanges
                         = squashOverlappingAnnotations(snapshot.highlightedRanges)
                  /\ Normalised(snapshot.highlightedRanges)
                         => newSnapshot.highlightedRanges = snapshot.highlightedRanges
                  /\ updateAndCleanAnnotationsForCommit(snapshot.highlightedRanges, <<>>)
                         = snapshot.highlightedRanges
        /\ (snapshot.highlightedRanges = <<>> /\ ~commit.isSignificant)
               => newSnapshot.highlightedRanges = <<>>

\* A significant commit without edits on a snapshot of two separate ranges.
C20_Witness ==
    /\ Applied
    /\ commit.contentChanges = <<>>
    /\ commit.isSignificant
    /\ Len(snapshot.highlightedRanges) = 2
    /\ Normalised(snapshot.highlightedRanges)
    /\ newSnapshot.highlightedRanges = snapshot.highlightedRanges

(***************************************************************************)
(* SpecObjects: one applyChange call, with the annotation objects of the   *)
(* input list told apart from the objects the call creates.  ref is the    *)
(* position of an object in the input list, 0 for an object created by     *)
(* the call.                                                               *)
(***************************************************************************)
Object(a, r) ==
    [startLine |-> a.startLine, endLine |-> a.endLine, timestamp |-> a.timestamp,
     type |-> a.type, ref |-> r]

ValueOf(o) == Annotation(o.startLine, o.endLine, o.timestamp)

\* The shallow copy [...annotations]: a new array of the same objects.
SameObjects(anns) == [i \in 1..Len(anns) |-> Object(anns[i], i)]

\* Objects built by an object literal ({ ...annotation } included).
NewObjects(anns) == [i \in 1..Len(anns) |-> Object(anns[i], 0)]

\* updatedRanges of applyChange before the merge: with no change the loop of
\* updateAndCleanAnnotationsForCommit does not run and the copy is returned;
\* otherwise every annotation went through processAnnotationForChangeAndClean,
\* which returns object literals only.
updatedRanges(snap, c, stamps) ==
    (IF c.contentChanges = <<>>
     THEN SameObjects(snap.highlightedRanges)
     ELSE NewObjects(updateAndCleanAnnotationsForCommit(snap.highlightedRanges,
                                                        c.contentChanges)))
        \o NewObjects(newAnnotations(c, stamps))

\* The annotations of the input snapshot once applyChange has returned: the
\* merge assigns endLine and timestamp of the objects it keeps.
inputAfterApplyChange(snap, c, stamps) ==
    LET merged == squashOverlappingAnnotations(updatedRanges(snap, c, stamps))
    IN [i \in 1..Len(snap.highlightedRanges) |->
           IF \E k \in 1..Len(merged) : merged[k].ref = i
           THEN ValueOf(merged[CHOOSE k \in 1..Len(merged) : merged[k].ref = i])
           ELSE snap.highlightedRanges[i]]

CallApplyChangeOnObjects ==
    /\ pc = "idle"
    /\ \E sig \in BOOLEAN, cs \in ListsOf(DocumentChanges) :
        LET c == Commit(snapshot.documentVersion + 1, sig, cs)
        IN /\ commit' = c
           /\ annotations' = snapshot.highlightedRanges
           /\ newSnapshot' = applyChange(snapshot, c, Stamps(c, now))
           /\ snapshot' = [snapshot EXCEPT !.highlightedRanges =
                               inputAfterApplyChange(snapshot, c, Stamps(c, now))]
    /\ pc' = "applyChange"
    /\ UNCHANGED <<now, annotation, change, changes, results>>
    /\ UNCHANGED extension

NextObjects == CallApplyChangeOnObjects

SpecObjects == InitApply /\ [][NextObjects]_vars

\* C21: after applyChange returns, the annotation list of the input snapshot
\* has the order and the startLine, endLine and timestamp values it had
\* before the call (annotations holds the list as it was before).
C21_InputSnapshotUntouched ==
    Applied => snapshot.highlightedRanges = annotations

(***************************************************************************)
(* SpecMalformed: the transform and applyChange on annotations with        *)
(* startLine > endLine, as a hand-edited or damaged snapshot file holds.   *)
(***************************************************************************)
InvertedAnnotations ==
    {Annotation(st, en, 0) : st \in 1..MaxLine, en \in 1..MaxLine} \ StoredAnnotations

IsInverted(a) == a.startLine > a.endLine

CallProcessInverted ==
    /\ pc = "idle"
    /\ \E a \in InvertedAnnotations, c \in CommitChanges :
        /\ annotation' = a
        /\ change' = c
        /\ results' = processAnnotationForChangeAndClean(a, c)
    /\ pc' = "processAnnotationForChangeAndClean"
    /\ UNCHANGED <<snapshot, newSnapshot, commit, now, annotations, changes>>
    /\ UNCHANGED extension

CallApplyChangeOnMalformed ==
    /\ pc = "idle"
    /\ \E rs \in ListsOf(InvertedAnnotations \cup StoredAnnotations),
          sig \in BOOLEAN, cs \in ListsOf(DocumentChanges) :
        LET c == Commit(2, sig, cs)
        IN /\ \E i \in 1..Len(rs) : IsInverted(rs[i])
           /\ snapshot' = Snapshot(rs, 0, 1)
           /\ commit' = c
           /\ newSnapshot' = applyChange(snapshot', c, Stamps(c, now))
    /\ pc' = "applyChange"
    /\ UNCHANGED <<now, annotation, change, annotations, changes, results>>
    /\ UNCHANGED extension

NextMalformed == CallProcessInverted \/ CallApplyChangeOnMalformed

SpecMalformed == Init /\ [][NextMalformed]_vars

\* C22: for an inverted input annotation processAnnotationForChangeAndClean
\* returns no range with startLine > endLine, whatever the edit, and no
\* inverted range is left in the snapshot applyChange returns for a commit
\* with at least one edit.
C22_NoInvertedRangeSurvives ==
    /\ (pc = "processAnnotationForChangeAndClean" /\ IsInverted(annotation))
           => \A i \in 1..Len(results) : ~IsInverted(results[i])
    /\ (Applied /\ commit.contentChanges # <<>>)
           => \A k \in 1..Len(newSnapshot.highlightedRanges) :
                  ~IsInverted(newSnapshot.highlightedRanges[k])

(***************************************************************************)
(* SpecRemoval: one removal command of the hover on the stored snapshot    *)
(* of the document.  snapshot is the snapshot the command loaded,          *)
(* newSnapshot the one it handed to saveSnapshot.                          *)
(***************************************************************************)
RemovableAnnotations ==
    {Annotation(r[1], r[2], t) : r \in Ranges(MaxDocLine), t \in 0..MaxStamp}

InitRemoval ==
    /\ now = MaxStamp + 1
    /\ snapshot = createEmptySnapshot(0)
    /\ newSnapshot = createEmptySnapshot(0)
    /\ commit = NoCommit
    /\ pc = "idle"
    /\ Idle
    /\ file \in {MissingFile, UnreadableFile}
                   \cup {FileOf(Snapshot(rs, 0, 1)) : rs \in ListsOf(RemovableAnnotations)}
    /\ NoCommandRun
    /\ HeuristicsIdle

\* The command your-code-my-code.unannotateBlock: removeAnnotation inside
\* the try of the command handler.
RemoveAnnotation ==
    /\ pc = "idle"
    /\ \E a \in RemovableAnnotations, outcome \in WriteOutcomes :
        LET loaded == loadSnapshot(file, now)
            annotationIndex == findIndex(loaded.highlightedRanges,
                                         a.startLine, a.endLine, a.timestamp)
            edited == [loaded EXCEPT !.highlightedRanges = splice(@, annotationIndex)]
        IN /\ annotation' = a
           /\ snapshot' = loaded
           /\ IF annotationIndex = 0
              THEN /\ error' = "Annotation not found"
                   /\ UNCHANGED <<newSnapshot, file, saveCalls>>
              ELSE /\ error' = ""
                   /\ newSnapshot' = edited
                   /\ file' = saveSnapshot(file, edited, outcome)
                   /\ saveCalls' = saveCalls + 1
    /\ pc' = "removeAnnotation"
    /\ UNCHANGED <<commit, now, change, annotations, changes, results, removal, handlers>>
    /\ UNCHANGED heuristics
    /\ UNCHANGED workspace

\* The command your-code-my-code.removePartialAnnotation.
RemovePartialAnnotation ==
    /\ pc = "idle"
    /\ \E a \in RemovableAnnotations, removeStartLine \in 1..MaxDocLine,
          removeEndLine \in 1..MaxDocLine, t2 \in {now, now + 1},
          outcome \in WriteOutcomes :
        LET loaded == loadSnapshot(file, now)
            annotationIndex == findIndex(loaded.highlightedRanges,
                                         a.startLine, a.endLine, a.timestamp)
            originalAnnotation == loaded.highlightedRanges[annotationIndex]
            edited == [loaded EXCEPT !.highlightedRanges =
                          splice(@, annotationIndex)
                              \o remainingParts(originalAnnotation, removeStartLine,
                                                removeEndLine, now, t2)]
        IN /\ annotation' = a
           /\ removal' = [removeStartLine |-> removeStartLine,
                          removeEndLine |-> removeEndLine]
           /\ snapshot' = loaded
           /\ IF annotationIndex = 0
              THEN /\ error' = "Annotation not found"
                   /\ UNCHANGED <<newSnapshot, file, saveCalls>>
              ELSE /\ error' = ""
                   /\ newSnapshot' = edited
                   /\ file' = saveSnapshot(file, edited, outcome)
                   /\ saveCalls' = saveCalls + 1
    /\ pc' = "removePartialAnnotation"
    /\ UNCHANGED <<commit, now, change, annotations, changes, results, handlers>>
    /\ UNCHANGED heuristics
    /\ UNCHANGED workspace

NextRemoval == RemoveAnnotation \/ RemovePartialAnnotation

SpecRemoval == InitRemoval /\ [][NextRemoval]_vars

\* C23: a removal command looks for the annotation whose startLine, endLine
\* and timestamp all equal its arguments.  When the loaded snapshot has none,
\* it fails with "Annotation not found", saveSnapshot is not called and the
\* file is unchanged; when it has one, the command does not fail, saves once,
\* and removeAnnotation hands to saveSnapshot the loaded list without its
\* first matching annotation, all others kept in order.
C23_RemovalByExactTriple ==
    [][pc' \in {"removeAnnotation", "removePartialAnnotation"} =>
          LET anns == loadSnapshot(file, now).highlightedRanges
              matching == {i \in 1..Len(anns) :
                              /\ anns[i].startLine = annotation'.startLine
                              /\ anns[i].endLine = annotation'.endLine
                              /\ anns[i].timestamp = annotation'.timestamp}
          IN IF matching = {}
             THEN /\ error' = "Annotation not found"
                  /\ saveCalls' = saveCalls
                  /\ file' = file
             ELSE /\ error' = ""
                  /\ saveCalls' = saveCalls + 1
                  /\ pc' = "removeAnnotation" =>
                         \E i \in matching :
                             /\ \A j \in matching : i <= j
                             /\ Len(newSnapshot'.highlightedRanges) = Len(anns) - 1
                             /\ \A k \in 1..(Len(anns) - 1) :
                                    newSnapshot'.highlightedRanges[k]
                                        = IF k < i THEN anns[k] ELSE anns[k + 1]
                             /\ file' \in {file, UnreadableFile, FileOf(newSnapshot')}]_vars

\* removeAnnotation took one of two annotations of the same range, the one
\* with the requested timestamp, and the write succeeded.
C23_Witness ==
    /\ pc = "removeAnnotation"
    /\ error = ""
    /\ Len(snapshot.highlightedRanges) = 2
    /\ snapshot.highlightedRanges[1].startLine = snapshot.highlightedRanges[2].startLine
    /\ snapshot.highlightedRanges[1].endLine = snapshot.highlightedRanges[2].endLine
    /\ snapshot.highlightedRanges[1].timestamp # annotation.timestamp
    /\ newSnapshot.highlightedRanges = <<snapshot.highlightedRanges[1]>>
    /\ file = FileOf(newSnapshot)

(***************************************************************************)
(* SpecStore: loadSnapshot and saveSnapshot calls on the snapshot file of  *)
(* a document that has not been observed before (no file).  snapshot is    *)
(* the argument of the last saveSnapshot, newSnapshot the value the last   *)
(* loadSnapshot returned.                                                  *)
(***************************************************************************)
SavedSnapshots ==
    {Snapshot(rs, 0, 1) : rs \in {<<>>} \cup {<<a>> : a \in StoredAnnotations}}

LoadSnapshot ==
    /\ newSnapshot' = loadSnapshot(file, now)
    /\ error' = ""
    /\ pc' = "loadSnapshot"
    /\ UNCHANGED <<snapshot, commit, now, annotation, change, annotations, changes,
                   results, file, saveCalls, removal, handlers>>
    /\ UNCHANGED heuristics
    /\ UNCHANGED workspace

SaveSnapshot ==
    /\ saveCalls < MaxSaves
    /\ \E snap \in SavedSnapshots, outcome \in WriteOutcomes :
        /\ snapshot' = snap
        /\ file' = saveSnapshot(file, snap, outcome)
    /\ saveCalls' = saveCalls + 1
    /\ error' = ""
    /\ pc' = "saveSnapshot"
    /\ UNCHANGED <<newSnapshot, commit, now, annotation, change, annotations, changes,
                   results, removal, handlers>>
    /\ UNCHANGED heuristics
    /\ UNCHANGED workspace

NextStore == LoadSnapshot \/ SaveSnapshot

SpecStore == Init /\ [][NextStore]_vars

\* C24: loadSnapshot never throws; it returns the stored snapshot, and an
\* empty one (no annotation, documentVersion 0) when the file is missing, as
\* for a document first observed, or cannot be read back; saveSnapshot never
\* throws, whether the write succeeded or not.
C24_StoreFailuresDoNotPropagate ==
    /\ pc = "loadSnapshot" =>
           /\ error = ""
           /\ file.state = "present" => newSnapshot = file.snapshot
           /\ file.state # "present" =>
                  /\ newSnapshot.highlightedRanges = <<>>
                  /\ newSnapshot.documentVersion = 0
    /\ pc = "saveSnapshot" =>
           /\ error = ""
           /\ file.state = "present" => file.snapshot \in SavedSnapshots
    /\ (pc = "idle" /\ saveCalls = 0) => file = MissingFile

\* A write that truncated the file followed by a load: the empty snapshot
\* comes back although a snapshot with an annotation had been handed over.
C24_Witness ==
    /\ pc = "loadSnapshot"
    /\ file = UnreadableFile
    /\ saveCalls > 0
    /\ snapshot.highlightedRanges # <<>>
    /\ newSnapshot.highlightedRanges = <<>>
    /\ newSnapshot.documentVersion = 0

(***************************************************************************)
(* SpecSignificance: one isChangeSignificant call, in each state the       *)
(* heuristics can be in when it is made.                                   *)
(***************************************************************************)
Texts == UNION {[1..n -> Characters] : n \in 0..MaxTextLen}

\* Changes as the tests build them: a text at a line, the line possibly
\* negative.
TextChanges ==
    {[startLine |-> l, endLine |-> l, text |-> t, addedLines |-> newlines(t),
      deletedLines |-> 0] : l \in {-1, 1}, t \in Texts}

InterceptedCommands == {"editor.action.clipboardPasteAction", "editor.action.formatDocument"}

InitSignificance ==
    /\ now = 0
    /\ snapshot = createEmptySnapshot(0)
    /\ newSnapshot = createEmptySnapshot(0)
    /\ commit = NoCommit
    /\ pc = "idle"
    /\ Idle
    /\ file = MissingFile
    /\ NoCommandRun
    /\ gitOperationSuspended \in BOOLEAN
    /\ recentActions \in SUBSET InterceptedCommands
    /\ actionTimeout = (IF recentActions = {} THEN 0 ELSE ACTION_TIMEOUT)
    /\ timers = (IF recentActions = {} THEN {} ELSE {ACTION_TIMEOUT})
    /\ notifications = 0
    /\ significant = FALSE

CallIsChangeSignificant ==
    /\ pc = "idle"
    /\ \E cs \in ListsOf(TextChanges) :
        /\ changes' = cs
        /\ significant' = isChangeSignificant(cs, gitOperationSuspended, recentActions)
    /\ pc' = "isChangeSignificant"
    /\ UNCHANGED <<snapshot, newSnapshot, commit, now, annotation, change, annotations,
                   results, file, saveCalls, error, removal, handlers>>
    /\ UNCHANGED <<gitOperationSuspended, recentActions, actionTimeout, timers,
                   notifications>>
    /\ UNCHANGED workspace

NextSignificance == CallIsChangeSignificant

SpecSignificance == InitSignificance /\ [][NextSignificance]_vars

\* The length of text without its leading and trailing whitespace, counted
\* from the first to the last of its other characters.
TrimmedLength(text) ==
    LET solid == {i \in 1..Len(text) : text[i] \notin Whitespace}
    IN IF solid = {} THEN 0
       ELSE (CHOOSE i \in solid : \A j \in solid : j <= i)
                - (CHOOSE i \in solid : \A j \in solid : i <= j) + 1

\* C28: isChangeSignificant returns true exactly when the list is not
\* empty, detection is not suspended, no recent action is recorded and some
\* change inserts a text of trimmed length 2 or more, whatever its lines.
C28_SignificantExactlyWhen ==
    pc = "isChangeSignificant" =>
        (significant <=>
            /\ changes # <<>>
            /\ ~gitOperationSuspended
            /\ recentActions = {}
            /\ \E i \in 1..Len(changes) : TrimmedLength(changes[i].text) >= 2)

\* A single character and a padded two-letter text at a negative line, with
\* nothing suspended: significant.
C28_Witness ==
    /\ pc = "isChangeSignificant"
    /\ significant
    /\ Len(changes) = 2
    /\ Len(changes[1].text) = 1
    /\ changes[2].startLine < 0
    /\ Len(changes[2].text) = 3
    /\ TrimmedLength(changes[2].text) = 2

(***************************************************************************)
(* SpecHeuristics: the HeuristicsSystem of the extension over time (now in *)
(* milliseconds): intercepted commands, the expiry timer, git commands     *)
(* seen in a terminal, the answers to the suspension notification, and     *)
(* isChangeSignificant calls.                                              *)
(***************************************************************************)
coreIdle == <<snapshot, newSnapshot, commit, annotation, change, annotations, results,
              file, saveCalls, error, removal, handlers, workspace>>

\* Time passes; a timer may be late and run after its due time.
Advance ==
    /\ now + TimeStep <= MaxTime
    /\ now' = now + TimeStep
    /\ UNCHANGED <<coreIdle, changes, pc, heuristics>>

\* Mutant of MarkRecentUserAction: the pending timer is not cleared.
MarkWithoutClearTimeout ==
    /\ now + ACTION_TIMEOUT <= MaxTime
    /\ \E command \in InterceptedCommands :
        recentActions' = recentActions \cup {command}
    /\ timers' = timers \cup {now + ACTION_TIMEOUT}
    /\ actionTimeout' = now + ACTION_TIMEOUT
    /\ pc' = "markRecentUserAction"
    /\ UNCHANGED <<coreIdle, changes, now, gitOperationSuspended, notifications,
                   significant>>

\* An intercepted command: markRecentUserAction(command).
MarkRecentUserAction ==
    /\ now + ACTION_TIMEOUT <= MaxTime
    /\ \E command \in InterceptedCommands :
        recentActions' = recentActions \cup {command}
    /\ timers' = (IF actionTimeout # 0 THEN timers \ {actionTimeout} ELSE timers)
                     \cup {now + ACTION_TIMEOUT}
    /\ actionTimeout' = now + ACTION_TIMEOUT
    /\ pc' = "markRecentUserAction"
    /\ UNCHANGED <<coreIdle, changes, now, gitOperationSuspended, notifications,
                   significant>>

\* The callback given to setTimeout runs.
ActionTimeoutFires ==
    /\ \E due \in timers :
        /\ due <= now
        /\ timers' = timers \ {due}
    /\ recentActions' = {}
    /\ pc' = "actionTimeout"
    /\ UNCHANGED <<coreIdle, changes, now, gitOperationSuspended, actionTimeout,
                   notifications, significant>>

\* Mutant of SuspendAIDetection: no return when detection is suspended already.
SuspendWithoutEarlyReturn ==
    /\ notifications < MaxNotifications
    /\ gitOperationSuspended' = TRUE
    /\ notifications' = notifications + 1
    /\ pc' = "suspendAIDetection"
    /\ UNCHANGED <<coreIdle, changes, now, recentActions, actionTimeout, timers,
                   significant>>

\* A git command starts in a terminal: suspendAIDetection up to its await.
SuspendAIDetection ==
    /\ IF gitOperationSuspended
       THEN UNCHANGED <<gitOperationSuspended, notifications>>
       ELSE /\ notifications < MaxNotifications
            /\ gitOperationSuspended' = TRUE
            /\ notifications' = notifications + 1
    /\ pc' = "suspendAIDetection"
    /\ UNCHANGED <<coreIdle, changes, now, recentActions, actionTimeout, timers,
                   significant>>

\* The user chooses 'Resume Highlighting': suspendAIDetection goes on after
\* its await and calls resumeAIDetection.
ChooseResumeHighlighting ==
    /\ notifications > 0
    /\ notifications' = notifications - 1
    /\ gitOperationSuspended' = FALSE
    /\ pc' = "resumeAIDetection"
    /\ UNCHANGED <<coreIdle, changes, now, recentActions, actionTimeout, timers,
                   significant>>

\* The user closes the notification: the await yields undefined.
DismissNotification ==
    /\ notifications > 0
    /\ notifications' = notifications - 1
    /\ pc' = "dismissed"
    /\ UNCHANGED <<coreIdle, changes, now, gitOperationSuspended, recentActions,
                   actionTimeout, timers, significant>>

\* A direct call of the public resumeAIDetection.
ResumeAIDetection ==
    /\ gitOperationSuspended' = FALSE
    /\ pc' = "resumeAIDetection"
    /\ UNCHANGED <<coreIdle, changes, now, recentActions, actionTimeout, timers,
                   notifications, significant>>

\* Change lists the heuristics are asked about: none, a typed character, an
\* inserted line.
ObservedChanges ==
    {<<>>,
     <<[startLine |-> 1, endLine |-> 1, text |-> <<"a">>, addedLines |-> 0,
        deletedLines |-> 0]>>,
     <<[startLine |-> 1, endLine |-> 1, text |-> <<"a", "a", "\n">>, addedLines |-> 1,
        deletedLines |-> 0]>>}

IsChangeSignificant ==
    /\ \E cs \in ObservedChanges :
        /\ changes' = cs
        /\ significant' = isChangeSignificant(cs, gitOperationSuspended, recentActions)
    /\ pc' = "isChangeSignificant"
    /\ UNCHANGED <<coreIdle, now, gitOperationSuspended, recentActions, actionTimeout,
                   timers, notifications>>

NextHeuristics ==
    \/ Advance
    \/ MarkRecentUserAction
    \/ ActionTimeoutFires
    \/ SuspendAIDetection
    \/ ChooseResumeHighlighting
    \/ DismissNotification
    \/ ResumeAIDetection
    \/ IsChangeSignificant

SpecHeuristics == Init /\ [][NextHeuristics]_vars

SpecHeuristicsFair ==
    SpecHeuristics /\ WF_vars(ActionTimeoutFires) /\ WF_vars(Advance)

RecentActionWindow ==
    /\ Cardinality(timers) <= 1
    /\ timers \subseteq {actionTimeout}
    /\ recentActions # {} => timers # {}
    /\ (actionTimeout # 0 /\ now < actionTimeout) =>
           /\ recentActions # {}
           /\ shouldFilterChange(gitOperationSuspended, recentActions)
    /\ pc = "actionTimeout" => recentActions = {}
    /\ (recentActions = {} /\ ~gitOperationSuspended) =>
           ~shouldFilterChange(gitOperationSuspended, recentActions)

\* C27: for ACTION_TIMEOUT ms after the last recorded action
\* shouldFilterChange returns true; at most one timer is pending, the one
\* set by the last action; when it runs, all tags are cleared at once; and,
\* actions no longer arriving after a time, recorded tags are always cleared
\* in the end, after which shouldFilterChange returns false unless detection
\* is suspended.
C27_RecentActionWindowExpires ==
    /\ []RecentActionWindow
    /\ (recentActions # {}) ~> (recentActions = {})

\* Two actions were recorded, the timer was restarted by the second one and
\* ran at its due time: no tag is left and changes are not filtered.
C27_Witness ==
    /\ pc = "actionTimeout"
    /\ recentActions = {}
    /\ timers = {}
    /\ actionTimeout = now
    /\ actionTimeout > ACTION_TIMEOUT + TimeStep
    /\ ~gitOperationSuspended
    /\ ~shouldFilterChange(gitOperationSuspended, recentActions)

(***************************************************************************)
(* SpecHandlers: two change events of a monitored document, fired in       *)
(* order.  handleDocumentChange runs up to its await when the event is     *)
(* fired and goes on later; an event with a reason is handled in one go.   *)
(***************************************************************************)
EditorTexts == {<<>>, <<"a">>, <<"a", "a", "\n">>}

\* The changes of an event: an empty range (rangeLength 0) or a replaced
\* range within lines 0..MaxEventLine - 1.
EditorChanges ==
    {[startLine |-> st, endLine |-> en, text |-> t, rangeLength |-> n] :
        st \in 0..(MaxEventLine - 1), en \in 0..(MaxEventLine - 1),
        t \in EditorTexts, n \in 0..1}

WellFormedEditorChange(c) ==
    /\ c.startLine <= c.endLine
    /\ c.startLine < c.endLine => c.rangeLength > 0

ChangeEvents ==
    {[contentChanges |-> cs, reason |-> r] :
        cs \in {<<>>} \cup {<<c>> : c \in {x \in EditorChanges : WellFormedEditorChange(x)}},
        r \in {"", "undo"}}

InitHandlers ==
    /\ now = 1
    /\ snapshot = createEmptySnapshot(0)
    /\ newSnapshot = createEmptySnapshot(0)
    /\ commit = NoCommit
    /\ pc = "idle"
    /\ Idle
    /\ file \in {MissingFile}
                   \cup {FileOf(Snapshot(rs, 0, 1)) :
                            rs \in {<<>>} \cup {<<a>> : a \in StoredAnnotations}}
    /\ NoCommandRun
    /\ HeuristicsIdle

\* Mutant of isSignificantFor: the heuristics are asked whatever the reason.
isSignificantWhateverReason(event, suspended, actions) ==
    isChangeSignificant(extractContentChanges(event.contentChanges), suspended, actions)

\* isSignificant of lines 33-34: false for an event with a reason (undo,
\* redo), the answer of the heuristics otherwise.
isSignificantFor(event, suspended, actions) ==
    IF event.reason # "" THEN FALSE
    ELSE isChangeSignificant(extractContentChanges(event.contentChanges),
                             suspended, actions)

\* The commit of handler h (lines 37-41); the document has version 1 before
\* the first event.
CommitOf(h, handler) ==
    Commit(1 + h, handler.isSignificant, handler.contentChanges)

\* Lines 44-47 for handler h: applyChange and saveSnapshot.
ApplyAndSave(h, handler, outcome) ==
    LET c == CommitOf(h, handler)
        applied == applyChange(handler.currentSnapshot, c, Stamps(c, now))
    IN /\ commit' = c
       /\ snapshot' = handler.currentSnapshot
       /\ newSnapshot' = applied
       /\ file' = saveSnapshot(file, applied, outcome)
       /\ saveCalls' = saveCalls + 1
       /\ handlers' = [handlers EXCEPT ![h] = [handler EXCEPT !.pc = "done",
                                                              !.outcome = outcome]]

\* The editor fires event h: handleDocumentChange runs up to the await of
\* line 34, or to its end when the event has a reason.
HandleDocumentChange(h) ==
    /\ handlers[h].pc = "pending"
    /\ \A g \in Handlers : g < h => handlers[g].pc # "pending"
    /\ \E event \in ChangeEvents, outcome \in WriteOutcomes :
        LET handler == [pc |-> "awaiting",
                        currentSnapshot |-> loadSnapshot(file, now),
                        contentChanges |-> extractContentChanges(event.contentChanges),
                        reason |-> event.reason,
                        isSignificant |-> isSignificantFor(event, gitOperationSuspended,
                                                           recentActions),
                        outcome |-> ""]
        IN IF event.reason # ""
           THEN ApplyAndSave(h, handler, outcome)
           ELSE /\ handlers' = [handlers EXCEPT ![h] = handler]
                /\ UNCHANGED <<snapshot, newSnapshot, commit, file, saveCalls>>
    /\ pc' = "handleDocumentChange"
    /\ UNCHANGED <<now, annotation, change, annotations, changes, results, error, removal>>
    /\ UNCHANGED heuristics
    /\ UNCHANGED workspace

\* handleDocumentChange goes on after its await.
ResumeDocumentChange(h) ==
    /\ handlers[h].pc = "awaiting"
    /\ \E outcome \in WriteOutcomes : ApplyAndSave(h, handlers[h], outcome)
    /\ pc' = "handleDocumentChange"
    /\ UNCHANGED <<now, annotation, change, annotations, changes, results, error, removal>>
    /\ UNCHANGED heuristics
    /\ UNCHANGED workspace

NextHandlers ==
    \E h \in Handlers : HandleDocumentChange(h) \/ ResumeDocumentChange(h)

SpecHandlers == InitHandlers /\ [][NextHandlers]_vars

BothHandled == \A h \in Handlers : handlers[h].pc = "done"

\* C25: when both events are handled and both writes succeeded, the handler
\* of the second event had loaded the snapshot saved by the handler of the
\* first, and the file holds the snapshot with both commits applied.
C25_NoLostUpdate ==
    (BothHandled /\ \A h \in Handlers : handlers[h].outcome = "written") =>
        LET first == CommitOf(1, handlers[1])
            second == CommitOf(2, handlers[2])
            afterFirst == applyChange(handlers[1].currentSnapshot, first, Stamps(first, now))
        IN /\ handlers[2].currentSnapshot = afterFirst
           /\ file = FileOf(applyChange(afterFirst, second, Stamps(second, now)))

\* C29: the commit of an event with a reason (undo, redo) is never
\* significant, whatever the heuristics would answer; the snapshot saved for
\* it is the merge of the shifted annotations of the loaded one: it has no
\* annotation of a new timestamp and does not cover more lines.
C29_UndoRedoNeverSignificant ==
    \A h \in Handlers :
        (handlers[h].pc = "done" /\ handlers[h].reason # ""
                                 /\ commit.documentVersion = 1 + h) =>
            /\ ~handlers[h].isSignificant
            /\ ~commit.isSignificant
            /\ newSnapshot.highlightedRanges
                   = squashOverlappingAnnotations(
                         updateAndCleanAnnotationsForCommit(snapshot.highlightedRanges,
                                                            commit.contentChanges))
            /\ \A k \in 1..Len(newSnapshot.highlightedRanges) :
                   \E i \in 1..Len(snapshot.highlightedRanges) :
                       newSnapshot.highlightedRanges[k].timestamp
                           = snapshot.highlightedRanges[i].timestamp
            /\ Cardinality(CoveredLines(newSnapshot.highlightedRanges))
                   <= Cardinality(CoveredLines(snapshot.highlightedRanges))

\* An undo that puts back a line the heuristics would call significant,
\* inside a stored annotation: the annotation is cut, none is added.
C29_Witness ==
    /\ handlers[1].pc = "done"
    /\ handlers[1].reason = "undo"
    /\ commit.documentVersion = 2
    /\ Len(commit.contentChanges) = 1
    /\ isChangeSignificant(commit.contentChanges, gitOperationSuspended, recentActions)
    /\ ~commit.isSignificant
    /\ Len(snapshot.highlightedRanges) = 1
    /\ Cardinality(CoveredLines(newSnapshot.highlightedRanges))
           < Cardinality(CoveredLines(snapshot.highlightedRanges))
    /\ newSnapshot.highlightedRanges # <<>>

\* C30: for a significant commit of two or more edits with pairwise
\* disjoint line ranges, each synthesized annotation starts at the line of
\* its edit after the commit: edit.startLine plus the summed deltas of the
\* edits of the commit that start at a smaller line.
C30_SynthesizedAtPostCommitLine ==
    (/\ Applied
     /\ commit.isSignificant
     /\ Len(commit.contentChanges) >= 2
     /\ PairwiseDisjoint(commit.contentChanges)) =>
        \A i \in 1..Len(commit.contentChanges) :
            results[i].startLine
                = commit.contentChanges[i].startLine
                      + SumDeltasBelow(commit.contentChanges,
                                       commit.contentChanges[i].startLine)

(***************************************************************************)
(* SpecRejoin: one applyChange call on a snapshot of one annotation, with  *)
(* a commit of single-line insertions and in-line replacements.            *)
(***************************************************************************)
InitRejoin ==
    /\ now = 1
    /\ snapshot \in {Snapshot(<<a>>, 0, 1) : a \in BatchAnnotations}
    /\ newSnapshot = createEmptySnapshot(0)
    /\ commit = NoCommit
    /\ pc = "idle"
    /\ Idle
    /\ ExtensionIdle

CallApplyChangeOnAnnotation ==
    /\ pc = "idle"
    /\ \E sig \in BOOLEAN, cs \in ListsOf(BatchChanges) :
        LET c == Commit(snapshot.documentVersion + 1, sig, cs)
        IN /\ commit' = c
           /\ annotations' = updateAndCleanAnnotationsForCommit(snapshot.highlightedRanges, cs)
           /\ results' = newAnnotations(c, Stamps(c, now))
           /\ newSnapshot' = applyChange(snapshot, c, Stamps(c, now))
    /\ pc' = "applyChange"
    /\ UNCHANGED <<snapshot, now, annotation, change, changes>>
    /\ UNCHANGED extension

NextRejoin == CallApplyChangeOnAnnotation

SpecRejoin == InitRejoin /\ [][NextRejoin]_vars

\* The commit replaces one line of the annotation of the snapshot in place,
\* and every other edit of it lies below the line after the annotation.
ReplacesLineInside ==
    LET ann == snapshot.highlightedRanges[1]
        cs == commit.contentChanges
    IN /\ cs # <<>>
       /\ \E i \in 1..Len(cs) :
            /\ cs[i].addedLines = 0
            /\ ann.startLine <= cs[i].startLine
            /\ cs[i].startLine <= ann.endLine
            /\ \A j \in 1..Len(cs) : j # i => cs[j].startLine > ann.endLine + 1

\* The ranges of the edits of the commit below the annotation, as the
\* synthesizer covers them.
RangesBelow ==
    LET ann == snapshot.highlightedRanges[1]
        cs == commit.contentChanges
        below == SelectSeq(cs, LAMBDA c : c.startLine > ann.endLine + 1)
    IN [i \in 1..Len(below) |-> <<below[i].startLine, below[i].startLine + below[i].addedLines>>]

\* C31: in a significant commit, a line replaced in place inside the
\* annotation [s,e] is covered again by the synthesized annotation and the
\* merge joins it with the two fragments into [s,e], followed by the
\* annotation of an edit further down; the snapshot [2,4] with the edits
\* {in-place replacement of line 3; insertion of 2 lines at line 6} gives
\* exactly [2,4] and [6,8], and the snapshot [4,4] with an insertion of 2
\* lines at line 7 gives [4,4] and [7,9].
C31_TouchedLineRejoined ==
    (Applied /\ commit.isSignificant) =>
        LET ann == snapshot.highlightedRanges[1]
            cs == commit.contentChanges
            ranges == RangesOf(newSnapshot.highlightedRanges)
        IN /\ ReplacesLineInside =>
                ranges = <<<<ann.startLine, ann.endLine>>>> \o RangesBelow
           /\ (/\ RangesOf(snapshot.highlightedRanges) = <<<<2, 4>>>>
               /\ cs = <<ContentChange(3, 3, 0, 0), ContentChange(6, 6, 2, 0)>>) =>
                ranges = <<<<2, 4>>, <<6, 8>>>>
           /\ (/\ RangesOf(snapshot.highlightedRanges) = <<<<4, 4>>>>
               /\ cs = <<ContentChange(7, 7, 2, 0)>>) =>
                ranges = <<<<4, 4>>, <<7, 9>>>>

\* The annotation [2,4] is split around line 3 by the batch, line 3 is
\* synthesized again and the three pieces are joined.
C31_Witness ==
    /\ Applied
    /\ commit.isSignificant
    /\ RangesOf(snapshot.highlightedRanges) = <<<<2, 4>>>>
    /\ commit.contentChanges = <<ContentChange(3, 3, 0, 0), ContentChange(6, 6, 2, 0)>>
    /\ RangesOf(annotations) = <<<<2, 2>>, <<4, 4>>>>
    /\ RangesOf(results) = <<<<3, 3>>, <<6, 8>>>>
    /\ RangesOf(newSnapshot.highlightedRanges) = <<<<2, 4>>, <<6, 8>>>>

(***************************************************************************)
(* Coverage of processAnnotationForChangeAndClean (SpecTransform).         *)
(***************************************************************************)
\* The number of lines of a well-formed range list, counted range by range.
RECURSIVE TotalLines(_)
TotalLines(anns) ==
    IF anns = <<>> THEN 0
    ELSE (Head(anns).endLine - Head(anns).startLine + 1) + TotalLines(Tail(anns))

\* The number of lines of the annotation lying in the replaced range.
TouchedLines ==
    Cardinality((annotation.startLine..annotation.endLine)
                    \cap (change.startLine..change.endLine))

RangesPairwiseDisjoint(anns) ==
    \A i \in 1..Len(anns), j \in 1..Len(anns) :
        i # j => (anns[i].endLine < anns[j].startLine \/ anns[j].endLine < anns[i].startLine)

\* C32: for an annotation [s,e] with s <= e and an edit with
\* startLine <= endLine and deletedLines = endLine - startLine, the ranges
\* the transform returns are well-formed and pairwise disjoint, and their
\* total number of lines is (e - s + 1) minus the number of lines of [s,e]
\* lying in [edit.startLine, edit.endLine].
C32_CoverageConserved ==
    (/\ Transformed
     /\ annotation.startLine <= annotation.endLine
     /\ change.startLine <= change.endLine
     /\ change.deletedLines = change.endLine - change.startLine) =>
        /\ \A i \in 1..Len(results) : results[i].startLine <= results[i].endLine
        /\ RangesPairwiseDisjoint(results)
        /\ TotalLines(results)
               = (annotation.endLine - annotation.startLine + 1) - TouchedLines

\* A multi-line replacement in the middle of the annotation leaves two
\* fragments, the second one shifted.
C32_Witness ==
    /\ Transformed
    /\ change.deletedLines = change.endLine - change.startLine
    /\ change.startLine < change.endLine
    /\ annotation.startLine < change.startLine
    /\ annotation.endLine > change.endLine
    /\ Delta # 0
    /\ Len(results) = 2
    /\ TouchedLines = 2
    /\ TotalLines(results) = (annotation.endLine - annotation.startLine + 1) - 2

(***************************************************************************)
(* SpecMetadata: one processAnnotationForChangeAndClean call, or one       *)
(* updateAndCleanAnnotationsForCommit call on annotations of different     *)
(* timestamps.                                                             *)
(***************************************************************************)
StampedAnnotations ==
    {Annotation(r[1], r[2], t) : r \in Ranges(MaxDocLine), t \in 0..MaxStamp}

CallUpdateAndCleanStamped ==
    /\ pc = "idle"
    /\ \E anns \in ListsOf(StampedAnnotations), cs \in ListsOf(DocumentChanges) :
        /\ annotations' = anns
        /\ changes' = cs
        /\ results' = updateAndCleanAnnotationsForCommit(anns, cs)
    /\ pc' = "updateAndCleanAnnotationsForCommit"
    /\ UNCHANGED <<snapshot, newSnapshot, commit, now, annotation, change>>
    /\ UNCHANGED extension

NextMetadata == CallProcessAnnotation \/ CallUpdateAndCleanStamped

SpecMetadata == Init /\ [][NextMetadata]_vars

SameMetadata(a, b) == a.timestamp = b.timestamp /\ a.type = b.type

\* Every range of outs carries the metadata of an annotation of ins, the
\* ranges of one annotation standing together and in the order of ins.
CarriesMetadataOf(outs, ins) ==
    \E origin \in [1..Len(outs) -> 1..Len(ins)] :
        /\ \A i \in 1..Len(outs), j \in 1..Len(outs) : i <= j => origin[i] <= origin[j]
        /\ \A i \in 1..Len(outs) : SameMetadata(outs[i], ins[origin[i]])

MergedAnnotations == {Annotation(r[1], r[2], 0) : r \in Ranges(MaxMergedLine)}

MergedChanges == ChangesWithin(MaxMergedLine)

CallUpdateAndCleanMerged ==
    /\ pc = "idle"
    /\ \E anns \in {l \in ListsOfThree(MergedAnnotations) : Normalised(l)},
          cs \in {l \in ListsOf(MergedChanges) : PairwiseDisjoint(l)} :
        /\ annotations' = anns
        /\ changes' = cs
        /\ results' = updateAndCleanAnnotationsForCommit(anns, cs)
    /\ pc' = "updateAndCleanAnnotationsForCommit"
    /\ UNCHANGED <<snapshot, newSnapshot, commit, now, annotation, change>>
    /\ UNCHANGED extension

NextMerged == CallUpdateAndCleanMerged

SpecMerged == Init /\ [][NextMerged]_vars

\* The fragments of each annotation of anns under the commit's edits, one
\* annotation after the other.
RECURSIVE FragmentsInAnnotationOrder(_, _)
FragmentsInAnnotationOrder(anns, cs) ==
    IF anns = <<>> THEN <<>>
    ELSE updateAndCleanAnnotationsForCommit(<<Head(anns)>>, cs)
             \o FragmentsInAnnotationOrder(Tail(anns), cs)

\* C34: for an annotation list sorted ascending, non-overlapping and
\* non-adjacent, and edits with pairwise disjoint line ranges and
\* deletedLines = endLine - startLine, the batch returns the fragments in
\* input annotation order, each well-formed, still sorted ascending,
\* non-overlapping and non-adjacent, and merging them changes nothing.
C34_MergedFormPreserved ==
    (/\ Batched
     /\ AllWellFormed(annotations)
     /\ Normalised(annotations)
     /\ PairwiseDisjoint(changes)
     /\ DeletesLineBreaks(changes)) =>
        /\ results = FragmentsInAnnotationOrder(annotations, changes)
        /\ AllWellFormed(results)
        /\ Normalised(results)
        /\ squashOverlappingAnnotations(results) = results

\* Two annotations one line apart and two disjoint edits, one of them
\* deleting a line break: the first annotation is split and the second one
\* moves up, and the three fragments stay apart.
C34_Witness ==
    /\ Batched
    /\ Len(annotations) = 2
    /\ Normalised(annotations)
    /\ Len(changes) = 2
    /\ PairwiseDisjoint(changes)
    /\ DeletesLineBreaks(changes)
    /\ \E i \in 1..2 : changes[i].deletedLines > 0
    /\ Len(results) = 3
    /\ results[3].startLine < annotations[2].startLine
    /\ Normalised(results)

(***************************************************************************)
(* Properties of removePartialAnnotation (SpecRemoval).                    *)
(***************************************************************************)
PartiallyRemoved == pc = "removePartialAnnotation" /\ error = ""

\* The index of the annotation the command matched in the snapshot it loaded.
MatchedIndex ==
    findIndex(snapshot.highlightedRanges,
              annotation.startLine, annotation.endLine, annotation.timestamp)

\* The annotations the command appended to the ones it kept.
StoredFragments ==
    SubSeq(newSnapshot.highlightedRanges,
           Len(snapshot.highlightedRanges), Len(newSnapshot.highlightedRanges))

\* The ranges left of [s,e] when the lines r1..r2 inside it are removed.
ExpectedFragmentRanges ==
    (IF removal.removeStartLine > annotation.startLine
     THEN <<<<annotation.startLine, removal.removeStartLine - 1>>>> ELSE <<>>)
        \o (IF removal.removeEndLine < annotation.endLine
            THEN <<<<removal.removeEndLine + 1, annotation.endLine>>>> ELSE <<>>)

\* C35: removePartialAnnotation of the lines [r1,r2] within the matched
\* annotation [s,e] (s <= r1 <= r2 <= e) stores, in place of that
\* annotation, [s, r1-1] when r1 > s and [r2+1, e] when r2 < e (nothing when
\* [r1,r2] = [s,e]), keeps every other annotation unchanged and in order,
\* and calls saveSnapshot once.
C35_PartialRemovalSplits ==
    (/\ PartiallyRemoved
     /\ annotation.startLine <= removal.removeStartLine
     /\ removal.removeStartLine <= removal.removeEndLine
     /\ removal.removeEndLine <= annotation.endLine) =>
        /\ SubSeq(newSnapshot.highlightedRanges, 1, Len(snapshot.highlightedRanges) - 1)
               = splice(snapshot.highlightedRanges, MatchedIndex)
        /\ RangesOf(StoredFragments) = ExpectedFragmentRanges
        /\ \A i \in 1..Len(StoredFragments) : StoredFragments[i].type = annotation.type
        /\ (removal.removeStartLine = annotation.startLine
                /\ removal.removeEndLine = annotation.endLine) => StoredFragments = <<>>
        /\ saveCalls = 1

\* The middle line of the second of two stored annotations is removed: the
\* first annotation stays and the two sides of the second one are stored.
C35_Witness ==
    /\ PartiallyRemoved
    /\ Len(snapshot.highlightedRanges) = 2
    /\ MatchedIndex = 2
    /\ annotation.startLine < removal.removeStartLine
    /\ removal.removeStartLine = removal.removeEndLine
    /\ removal.removeEndLine < annotation.endLine
    /\ Len(newSnapshot.highlightedRanges) = 3
    /\ newSnapshot.highlightedRanges[1] = snapshot.highlightedRanges[1]
    /\ RangesOf(StoredFragments) = <<<<1, 1>>, <<3, 3>>>>
    /\ file = FileOf(newSnapshot)

\* C36: whatever removeStartLine and removeEndLine are, also outside the
\* matched annotation [s,e], the fragments removePartialAnnotation stores
\* cover only lines of [s,e], cover no line of
\* [removeStartLine, removeEndLine], and each has startLine <= endLine.
C36_RemovalNeverAddsCoverage ==
    PartiallyRemoved =>
        \A i \in 1..Len(StoredFragments) :
            LET lines == StoredFragments[i].startLine..StoredFragments[i].endLine
            IN /\ StoredFragments[i].startLine <= StoredFragments[i].endLine
               /\ lines \subseteq annotation.startLine..annotation.endLine
               /\ lines \cap (removal.removeStartLine..removal.removeEndLine) = {}

(***************************************************************************)
(* SpecRace: the change events of SpecHandlers and one removal command of  *)
(* the hover, run while a handleDocumentChange call is suspended at its    *)
(* await.  The commands have no await before their saveSnapshot, so each   *)
(* one is a single step; removal records the removed lines and what the    *)
(* write of the command did.                                               *)
(***************************************************************************)
\* The annotations of the lines the change events touch.
EventAnnotations == {Annotation(r[1], r[2], 0) : r \in Ranges(MaxEventLine)}

InitRace ==
    /\ now = 1
    /\ snapshot = createEmptySnapshot(0)
    /\ newSnapshot = createEmptySnapshot(0)
    /\ commit = NoCommit
    /\ pc = "idle"
    /\ Idle
    /\ file \in {MissingFile} \cup {FileOf(Snapshot(<<a>>, 0, 1)) : a \in EventAnnotations}
    /\ NoCommandRun
    /\ HeuristicsIdle

Suspended(h) == handlers[h].pc = "awaiting"

RemovalOf(startLine, endLine, outcome) ==
    [removeStartLine |-> startLine, removeEndLine |-> endLine, outcome |-> outcome]

\* your-code-my-code.unannotateBlock while handleDocumentChange is suspended.
RemoveAnnotationWhileSuspended ==
    /\ removal = NoRemoval
    /\ \E h \in Handlers : Suspended(h)
    /\ \E a \in EventAnnotations, outcome \in WriteOutcomes :
        LET loaded == loadSnapshot(file, now)
            annotationIndex == findIndex(loaded.highlightedRanges,
                                         a.startLine, a.endLine, a.timestamp)
            edited == [loaded EXCEPT !.highlightedRanges = splice(@, annotationIndex)]
        IN /\ annotation' = a
           /\ snapshot' = loaded
           /\ IF annotationIndex = 0
              THEN /\ error' = "Annotation not found"
                   /\ removal' = RemovalOf(a.startLine, a.endLine, "")
                   /\ UNCHANGED <<newSnapshot, file, saveCalls>>
              ELSE /\ error' = ""
                   /\ removal' = RemovalOf(a.startLine, a.endLine, outcome)
                   /\ newSnapshot' = edited
                   /\ file' = saveSnapshot(file, edited, outcome)
                   /\ saveCalls' = saveCalls + 1
    /\ pc' = "removeAnnotation"
    /\ UNCHANGED <<commit, now, change, annotations, changes, results, handlers>>
    /\ UNCHANGED heuristics
    /\ UNCHANGED workspace

\* your-code-my-code.removePartialAnnotation while handleDocumentChange is
\* suspended.
RemovePartialAnnotationWhileSuspended ==
    /\ removal = NoRemoval
    /\ \E h \in Handlers : Suspended(h)
    /\ \E a \in EventAnnotations, removeStartLine \in 1..MaxEventLine,
          removeEndLine \in 1..MaxEventLine, outcome \in WriteOutcomes :
        LET loaded == loadSnapshot(file, now)
            annotationIndex == findIndex(loaded.highlightedRanges,
                                         a.startLine, a.endLine, a.timestamp)
            originalAnnotation == loaded.highlightedRanges[annotationIndex]
            edited == [loaded EXCEPT !.highlightedRanges =
                          splice(@, annotationIndex)
                              \o remainingParts(originalAnnotation, removeStartLine,
                                                removeEndLine, now, now)]
        IN /\ annotation' = a
           /\ snapshot' = loaded
           /\ IF annotationIndex = 0
              THEN /\ error' = "Annotation not found"
                   /\ removal' = RemovalOf(removeStartLine, removeEndLine, "")
                   /\ UNCHANGED <<newSnapshot, file, saveCalls>>
              ELSE /\ error' = ""
                   /\ removal' = RemovalOf(removeStartLine, removeEndLine, outcome)
                   /\ newSnapshot' = edited
                   /\ file' = saveSnapshot(file, edited, outcome)
                   /\ saveCalls' = saveCalls + 1
    /\ pc' = "removePartialAnnotation"
    /\ UNCHANGED <<commit, now, change, annotations, changes, results, handlers>>
    /\ UNCHANGED heuristics
    /\ UNCHANGED workspace

NextRace ==
    \/ \E h \in Handlers : HandleDocumentChange(h) \/ ResumeDocumentChange(h)
    \/ RemoveAnnotationWhileSuspended
    \/ RemovePartialAnnotationWhileSuspended

SpecRace == InitRace /\ [][NextRace]_vars

\* A removal command found its annotation and its write succeeded.
RemovalSaved == removal # NoRemoval /\ error = "" /\ removal.outcome = "written"

\* No handler is suspended, and the write of every handler that ran succeeded.
HandlersFinished ==
    \A h \in Handlers :
        /\ ~Suspended(h)
        /\ handlers[h].pc = "done" => handlers[h].outcome = "written"

\* C37: when a removal command has loaded, edited and saved the snapshot
\* while a handleDocumentChange call was suspended between its loadSnapshot
\* and its saveSnapshot, the snapshot in the file after both have finished
\* does not hold the removed annotation.
C37_RemovalNotLost ==
    (RemovalSaved /\ HandlersFinished) =>
        findIndex(loadSnapshot(file, now).highlightedRanges,
                  annotation.startLine, annotation.endLine, annotation.timestamp) = 0

(***************************************************************************)
(* SpecPaths: saveSnapshot and loadSnapshot calls for the documents of one *)
(* workspace.  folder holds the files the calls write; saved holds, per    *)
(* document, the file a store keyed by the document would hold.            *)
(***************************************************************************)
PathSnapshots ==
    {Snapshot(rs, 0, 1) : rs \in {<<>>, <<Annotation(1, 1, 0)>>}}

\* saveSnapshot(documentUri, snapshot)
SaveSnapshotOf ==
    /\ saveCalls < MaxSaves
    /\ \E d \in Documents, snap \in PathSnapshots, outcome \in WriteOutcomes :
        /\ folder' = fileWritten(folder, getSnapshotPath(d),
                                  saveSnapshot(fileAt(folder, getSnapshotPath(d)), snap, outcome))
        /\ saved' = fileWritten(saved, d, saveSnapshot(fileAt(saved, d), snap, outcome))
        /\ newSnapshot' = snap
    /\ saveCalls' = saveCalls + 1
    /\ pc' = "saveSnapshot"
    /\ UNCHANGED <<snapshot, commit, now, annotation, change, annotations, changes, results>>
    /\ UNCHANGED <<file, error, removal, handlers>>
    /\ UNCHANGED heuristics

\* loadSnapshot(documentUri)
LoadSnapshotOf ==
    /\ \E d \in Documents : snapshot' = loadSnapshot(fileAt(folder, getSnapshotPath(d)), now)
    /\ pc' = "loadSnapshot"
    /\ UNCHANGED <<newSnapshot, commit, now, annotation, change, annotations, changes, results>>
    /\ UNCHANGED <<file, saveCalls, error, removal, handlers>>
    /\ UNCHANGED heuristics
    /\ UNCHANGED workspace

NextPaths == SaveSnapshotOf \/ LoadSnapshotOf

SpecPaths == Init /\ [][NextPaths]_vars

\* C38: two different documents of the workspace never share a snapshot
\* file, so loadSnapshot returns for every document what was last saved for
\* that document, and nothing saved for another one.
C38_KeyedByDocument ==
    /\ \A d1 \in Documents, d2 \in Documents :
        d1 # d2 => getSnapshotPath(d1) # getSnapshotPath(d2)
    /\ \A d \in Documents :
        loadSnapshot(fileAt(folder, getSnapshotPath(d)), now)
            = loadSnapshot(fileAt(saved, d), now)

(***************************************************************************)
(* SpecExtract: one extractContentChanges call on the changes of an event  *)
(* of the editor: changes holds them, results the edits returned.          *)
(***************************************************************************)
CallExtractContentChanges ==
    /\ pc = "idle"
    /\ \E vsCodeChanges \in ListsOf({c \in EditorChanges : WellFormedEditorChange(c)}) :
        /\ changes' = vsCodeChanges
        /\ results' = extractContentChanges(vsCodeChanges)
    /\ pc' = "extractContentChanges"
    /\ UNCHANGED <<snapshot, newSnapshot, commit, now, annotation, change, annotations>>
    /\ UNCHANGED extension

NextExtract == CallExtractContentChanges

SpecExtract == Init /\ [][NextExtract]_vars

Extracted == pc = "extractContentChanges"

\* The number of newline characters of a text.
RECURSIVE LineBreaks(_)
LineBreaks(text) ==
    IF text = <<>> THEN 0
    ELSE (IF Head(text) = "\n" THEN 1 ELSE 0) + LineBreaks(Tail(text))

\* C39: extractContentChanges returns one edit per change of the editor, in
\* the same order, with startLine = range.start.line + 1,
\* endLine = range.end.line + 1, addedLines = the number of newline
\* characters of the inserted text, and deletedLines =
\* range.end.line - range.start.line when rangeLength > 0 and 0 otherwise;
\* hence 1 <= startLine <= endLine, addedLines >= 0 and
\* deletedLines = endLine - startLine.
C39_EditExtraction ==
    Extracted =>
        /\ Len(results) = Len(changes)
        /\ \A i \in 1..Len(changes) :
            /\ results[i].startLine = changes[i].startLine + 1
            /\ results[i].endLine = changes[i].endLine + 1
            /\ results[i].addedLines = LineBreaks(changes[i].text)
            /\ results[i].deletedLines
                   = (IF changes[i].rangeLength > 0
                      THEN changes[i].endLine - changes[i].startLine ELSE 0)
            /\ 1 <= results[i].startLine
            /\ results[i].startLine <= results[i].endLine
            /\ results[i].addedLines >= 0
            /\ results[i].deletedLines = results[i].endLine - results[i].startLine

\* An event of two changes: an insertion of a text with a line break at an
\* empty range, and a replacement spanning a line break.
C39_Witness ==
    /\ Extracted
    /\ Len(changes) = 2
    /\ changes[1].rangeLength = 0
    /\ changes[1].startLine = 1
    /\ results[1].startLine = 2
    /\ results[1].addedLines = 1
    /\ results[1].deletedLines = 0
    /\ changes[2].rangeLength > 0
    /\ changes[2].startLine < changes[2].endLine
    /\ results[2].startLine = 1
    /\ results[2].deletedLines = 1
    /\ results[2].addedLines = 0

(***************************************************************************)
(* Repeated suspension (SpecHeuristics).                                   *)
(***************************************************************************)
\* C40: suspendAIDetection invoked while detection is suspended, also
\* before the notification of the first invocation is answered, changes
\* nothing and shows no notification; a notification is shown only by the
\* invocation that suspends detection, one per suspension; and
\* markRecentUserAction leaves the suspension as it is while
\* suspendAIDetection leaves the recorded actions as they are.
C40_SuspensionIdempotent ==
    [][/\ (gitOperationSuspended /\ SuspendAIDetection) =>
              /\ gitOperationSuspended'
              /\ UNCHANGED <<notifications, recentActions, actionTimeout, timers,
                             significant, now, coreIdle>>
       /\ notifications' > notifications =>
              /\ ~gitOperationSuspended
              /\ gitOperationSuspended'
              /\ pc' = "suspendAIDetection"
              /\ notifications' = notifications + 1
       /\ MarkRecentUserAction =>
              UNCHANGED <<gitOperationSuspended, notifications>>
       /\ SuspendAIDetection =>
              UNCHANGED <<recentActions, actionTimeout, timers>>]_vars

\* The notification of the suspension was closed, two commands were
\* recorded, and suspendAIDetection ran again: detection is suspended, no
\* notification is pending and both actions are recorded.
C40_Witness ==
    /\ pc = "suspendAIDetection"
    /\ gitOperationSuspended
    /\ notifications = 0
    /\ recentActions = InterceptedCommands
    /\ actionTimeout # 0

====
